---- MODULE Spec2Model ----
(***************************************************************************)
(* The project-level incremental build pipeline of quarto-cli:             *)
(*   - the per-input index cache  (project-index.ts: inputTargetIndex,     *)
(*     readInputTargetIndex; project-shared.ts: projectConfigFile)         *)
(*   - the project render         (project.ts: renderProject)              *)
(* Each part has its own specification (SpecIndex, SpecRender); the        *)
(* variables of the other part stay at their initial value.                *)
(***************************************************************************)
EXTENDS Integers, Sequences, FiniteSets, TLC

\* ------------------------------------------------------------------ bounds

\* File-system time runs 0..MaxClock (the resolution of mtime is one tick).
MaxClock == 2

\* renderProject is called at most MaxRuns times in a behaviour.
MaxRuns == 2

\* The preview server receives MaxRequests requests in a behaviour.
MaxRequests == 3
\* Input discovery finds at most MaxWalk paths in one call.
MaxWalk == 4
\* MaxOverlap renderProject calls are in progress in one process.
MaxOverlap == 3
\* The project configuration nests collections MaxNesting deep below its
\* top-level keys.
MaxNesting == 2
\* A website is rendered, and its sitemap updated, MaxUpdates times.
MaxUpdates == 2

Undefined == "undefined"

VARIABLES
  fs,      \* the project directory: path -> Dir, or the content of a file
  env,     \* the process environment's QUARTO_PROJECT_DIR
  gen,     \* the number of renderProject calls so far
  config,  \* the project configuration: output-dir and lib-dir
  rp,      \* the renderProject call in flight: its position and locals
  ret      \* how the last renderProject call ended

rvars == <<fs, env, gen, config, rp, ret>>

\* ====================================================================
\*  PART 1 - the input index cache (project-index.ts)
\* ====================================================================

VARIABLES
  now,        \* the file system's clock
  inputFile,  \* input (relative path) -> [kind, mtime, content]
  cfgFile,    \* "_quarto.yml" / "_quarto.yaml" -> [exists, mtime]
  indexFile,  \* input -> the cache file .quarto/index/<input>.json
  lk,         \* the inputTargetIndex call in flight (its position and locals)
  last,       \* what the step just taken did to an inputTargetIndex call
  prev,       \* input -> entry its last call returned, if nothing changed since
  cfgRaised   \* input -> the config's mtime was raised above its cache file's

ixvars == <<now, inputFile, cfgFile, indexFile, lk, last, prev, cfgRaised>>

VARIABLES
  req,          \* the preview server: request -> its kind and position
  renderQueue,  \* the requests whose render waits in the PromiseQueue
  running,      \* the PromiseQueue runs a render
  inFlight      \* the requests whose renderProject call is in progress

svars == <<req, renderQueue, running, inFlight>>

VARIABLES
  pif           \* the projectInputFiles call: its position and locals

dvars == <<pif>>

VARIABLES
  calls         \* overlapping renderProject calls: call -> its position

ovars == <<calls>>

VARIABLES
  cr            \* the projectConfigResources call: its arguments and result

cvars == <<cr>>

VARIABLES
  site          \* a website's output directory: sitemap.xml, robots.txt,
                \* the output files' mtimes, and the updateSitemap call

wvars == <<site>>

\* What the steps of one part of the program leave alone.
otherThanIndex ==
  <<rvars, svars, dvars, ovars, cvars, wvars>>
otherThanRender ==
  <<ixvars, svars, dvars, ovars, cvars, wvars>>
otherThanServe ==
  <<ixvars, rvars, dvars, ovars, cvars, wvars>>
otherThanDiscovery ==
  <<ixvars, rvars, svars, ovars, cvars, wvars>>
otherThanOverlap ==
  <<fs, gen, config, rp, ret, ixvars, svars, dvars, cvars, wvars>>
otherThanConfig ==
  <<ixvars, rvars, svars, dvars, ovars, wvars>>
otherThanSitemap == <<ixvars, rvars, svars, dvars, ovars, cvars>>

\* Inputs whose file exists and that an engine claims, and the others:
\* a path that does not exist, a directory, a file no engine claims.
Indexable == {"a.qmd", "b.qmd"}
NotIndexable == {"gone.qmd", "docs", "notes.txt"}
Inputs == Indexable \cup NotIndexable

\* What an input file holds: the title of its front matter and its first
\* heading, either of which may be absent.
InputContents ==
  { [title |-> "T", heading |-> "H"],
    [title |-> Undefined, heading |-> "H"],
    [title |-> Undefined, heading |-> Undefined] }

\* The contents each input takes: a.qmd is edited, b.qmd is only saved again.
ContentsOf(i) ==
  IF i = "a.qmd" THEN InputContents
  ELSE {[title |-> Undefined, heading |-> "H"]}

CfgNames == <<"_quarto.yml", "_quarto.yaml">>

Corrupt == [corrupt |-> TRUE]
NoEntry == [none |-> TRUE]
NoContent == [title |-> Undefined, heading |-> Undefined]

\* Mutant: every file is claimed by an engine.
fileExecutionEngine_Any(i) == "markdown"

\* fileExecutionEngine(inputFile): the engine claiming the file's extension.
fileExecutionEngine(i) ==
  IF i \in {"notes.txt", "style.css"} THEN Undefined
  ELSE IF i = "doc.Rmd" THEN "knitr"
  ELSE "markdown"

\* projectConfigFile(dir): the first of _quarto.yml, _quarto.yaml that exists.
projectConfigFile ==
  IF cfgFile[CfgNames[1]].exists THEN CfgNames[1]
  ELSE IF cfgFile[CfgNames[2]].exists THEN CfgNames[2]
  ELSE Undefined

\* JSON.stringify drops the properties whose value is undefined; the text is
\* modelled by the function from the remaining keys to their values.
\* The optional properties are title and headingText.
Optional == {"title", "headingText"}
Defined(r) == {k \in DOMAIN r : k \notin Optional \/ r[k] # Undefined}
JSONstringify(r) == [k \in Defined(r) |-> r[k]]

\* Mutant: the text of a corrupt file is taken for an entry.
Deserializes_Always(text) == TRUE

\* JSON.parse of a cache file's text: throws on a corrupt file.
Deserializes(text) == text # Corrupt
JSONparse(text) == text

\* Reading an optional property of an object: undefined when it has no such key.
Get(obj, k) == IF k \in DOMAIN obj THEN obj[k] ELSE Undefined

\* Two entries are the same InputTargetIndex: an absent title is an
\* undefined one (title?: string).
SameEntry(e1, e2) ==
  /\ e1 # NoEntry /\ e2 # NoEntry
  /\ JSONstringify(e1) = JSONstringify(e2)

\* renderFormats(inputFile, "all", project): the resolved formats, in order.
renderFormats(c) == << [to |-> "html", title |-> c.title] >>

\* engine.partitionedMarkdown(inputFile)
partitionedMarkdown(c) == JSONstringify([headingText |-> c.heading])

\* The index built from the formats and the partition (lines 190-202).
BuildIndex(formats, markdown) ==
  LET hasFirstFormat == Len(formats) > 0
      title0 == IF hasFirstFormat THEN formats[1].title ELSE Undefined
      title == IF title0 = Undefined THEN Get(markdown, "headingText") ELSE title0
  IN [title |-> title, markdown |-> markdown, formats |-> formats]

\* readInputTargetIndex(projectDir, input): the parsed cache entry, or
\* undefined.  An mtime is a Date, which is always truthy; projMod is 0
\* (falsy) when there is no project configuration file.
NoIndex == [found |-> FALSE, index |-> NoEntry]

\* Mutant: the cache must be strictly newer than the input (> for >=).
readInputTargetIndex_StrictlyNewer(i) ==
  IF indexFile[i].exists
  THEN LET inputMod == inputFile[i].mtime
           indexMod == indexFile[i].mtime
           projConfigFile == projectConfigFile
           hasProjMod == projConfigFile # Undefined
           projMod == IF hasProjMod THEN cfgFile[projConfigFile].mtime ELSE 0
       IN IF indexMod > inputMod /\ (~hasProjMod \/ indexMod >= projMod)
          THEN IF Deserializes(indexFile[i].text)
               THEN [found |-> TRUE, index |-> JSONparse(indexFile[i].text)]
               ELSE NoIndex
          ELSE NoIndex
  ELSE NoIndex

\* Mutant: the project configuration file's mtime is not compared.
readInputTargetIndex_IgnoresConfig(i) ==
  IF indexFile[i].exists
  THEN IF indexFile[i].mtime >= inputFile[i].mtime
       THEN IF Deserializes(indexFile[i].text)
            THEN [found |-> TRUE, index |-> JSONparse(indexFile[i].text)]
            ELSE NoIndex
       ELSE NoIndex
  ELSE NoIndex

readInputTargetIndex(i) ==
  IF indexFile[i].exists
  THEN LET inputMod == inputFile[i].mtime
           indexMod == indexFile[i].mtime
           projConfigFile == projectConfigFile
           hasProjMod == projConfigFile # Undefined
           projMod == IF hasProjMod THEN cfgFile[projConfigFile].mtime ELSE 0
       IN IF indexMod >= inputMod /\ (~hasProjMod \/ indexMod >= projMod)
          THEN IF Deserializes(indexFile[i].text)
               THEN [found |-> TRUE, index |-> JSONparse(indexFile[i].text)]
               ELSE NoIndex
          ELSE NoIndex
  ELSE NoIndex

Idle == [pc |-> "idle", input |-> Undefined, formats |-> << >>]

Ended(i, outcome) == outcome

\* inputTargetIndex(project, input), lines 164-186: up to the first await.
LookupStart(i) ==
  /\ lk.pc = "idle"
  /\ IF inputFile[i].kind # "file" \/ fileExecutionEngine(i) = Undefined
     THEN /\ last' = Ended(i, "undefined")
          /\ UNCHANGED <<lk, prev, cfgRaised>>
     ELSE LET targetIndex == readInputTargetIndex(i)
          IN IF targetIndex.found
             THEN /\ last' = Ended(i, IF prev[i] # NoEntry THEN "cached again"
                                                          ELSE "cached")
                  /\ prev' = [prev EXCEPT ![i] = targetIndex.index]
                  /\ UNCHANGED <<lk, cfgRaised>>
             ELSE /\ lk' = [pc |-> "formats", input |-> i, formats |-> << >>]
                  /\ last' = Ended(i, "started")
                  /\ prev' = [prev EXCEPT ![i] = NoEntry]
                  /\ UNCHANGED cfgRaised
  /\ UNCHANGED <<now, inputFile, cfgFile, indexFile>>
  /\ UNCHANGED otherThanIndex

\* await renderFormats(...) resolves (line 189).
RenderFormatsDone ==
  /\ lk.pc = "formats"
  /\ lk' = [lk EXCEPT !.pc = "partition",
                      !.formats = renderFormats(inputFile[lk.input].content)]
  /\ last' = "none"
  /\ UNCHANGED <<now, inputFile, cfgFile, indexFile, prev, cfgRaised>>
  /\ UNCHANGED otherThanIndex

\* Mutant: the regenerated index is returned but not persisted.
PartitionDone_NotPersisted ==
  /\ lk.pc = "partition"
  /\ LET i == lk.input
         index == BuildIndex(lk.formats,
                             partitionedMarkdown(inputFile[i].content))
     IN /\ last' = Ended(i, "regenerated")
        /\ prev' = [prev EXCEPT ![i] = index]
        /\ cfgRaised' = [cfgRaised EXCEPT ![i] = FALSE]
  /\ lk' = Idle
  /\ UNCHANGED <<now, inputFile, cfgFile, indexFile>>
  /\ UNCHANGED otherThanIndex

\* await engine.partitionedMarkdown(...) resolves; the index is built,
\* written to the cache file and returned (lines 190-206).
PartitionDone ==
  /\ lk.pc = "partition"
  /\ LET i == lk.input
         index == BuildIndex(lk.formats,
                             partitionedMarkdown(inputFile[i].content))
     IN /\ indexFile' = [indexFile EXCEPT ![i] =
               [exists |-> TRUE, mtime |-> now, text |-> JSONstringify(index)]]
        /\ last' = Ended(i, "regenerated")
        /\ prev' = [prev EXCEPT ![i] = index]
        /\ cfgRaised' = [cfgRaised EXCEPT ![i] = FALSE]
  /\ lk' = Idle
  /\ UNCHANGED <<now, inputFile, cfgFile>>
  /\ UNCHANGED otherThanIndex

\* Mutant: the entry built so far is written when the regeneration fails.
RegenerationFails_WritesPartial ==
  /\ lk.pc \in {"formats", "partition"}
  /\ last' = Ended(lk.input, "error")
  /\ lk' = Idle
  /\ indexFile' = [indexFile EXCEPT ![lk.input] =
        [exists |-> TRUE, mtime |-> now,
         text |-> JSONstringify(BuildIndex(lk.formats, NoContent))]]
  /\ UNCHANGED <<now, inputFile, cfgFile, prev, cfgRaised>>
  /\ UNCHANGED otherThanIndex

\* renderFormats or partitionedMarkdown rejects: the error propagates to the
\* caller of inputTargetIndex and nothing is written.
RegenerationFails ==
  /\ lk.pc \in {"formats", "partition"}
  /\ last' = Ended(lk.input, "error")
  /\ lk' = Idle
  /\ UNCHANGED <<now, inputFile, cfgFile, indexFile, prev, cfgRaised>>
  /\ UNCHANGED otherThanIndex

\* ---- the environment: time passes, the user saves files

Tick ==
  /\ now < MaxClock
  /\ now' = now + 1
  /\ last' = "none"
  /\ UNCHANGED <<inputFile, cfgFile, indexFile, lk, prev, cfgRaised>>
  /\ UNCHANGED otherThanIndex

\* The input file is saved, with new content c or with the content it had.
SaveInput(i, c) ==
  /\ inputFile[i].kind = "file"
  /\ i \in Indexable /\ c \in ContentsOf(i)
  /\ inputFile' = [inputFile EXCEPT ![i].mtime = now, ![i].content = c]
  /\ prev' = [prev EXCEPT ![i] = NoEntry]
  /\ last' = "none"
  /\ UNCHANGED <<now, cfgFile, indexFile, lk, cfgRaised>>
  /\ UNCHANGED otherThanIndex

\* The project configuration file is saved.
SaveConfig(f) ==
  /\ f = projectConfigFile
  /\ cfgFile' = [cfgFile EXCEPT ![f].mtime = now]
  /\ prev' = [i \in Inputs |-> NoEntry]
  /\ cfgRaised' = [i \in Inputs |->
        IF indexFile[i].exists /\ now > indexFile[i].mtime
        THEN TRUE ELSE cfgRaised[i]]
  /\ last' = "none"
  /\ UNCHANGED <<now, inputFile, indexFile, lk>>
  /\ UNCHANGED otherThanIndex

\* ====================================================================
\*  PART 2 - the project render (project.ts: renderProject)
\* ====================================================================

\* ---- the file system.  A path is the sequence of its names below the
\* project directory; fs maps every existing path to Dir or, for a file, to
\* its content: Content(g) for what render g wrote, or UserContent.

Dir == "dir"
UserContent == "user"
ContentNames == <<"render1", "render2", "render3", "render4">>
Content(g) == ContentNames[g]

Dirname(p) == SubSeq(p, 1, Len(p) - 1)
IsPrefix(d, p) == Len(d) <= Len(p) /\ SubSeq(p, 1, Len(d)) = d
Suffix(p, d) == SubSeq(p, Len(d) + 1, Len(p))
Subtree(f, d) == {p \in DOMAIN f : IsPrefix(d, p)}

\* The content of directory d: relative path -> Dir or file content.
DirContent(f, d) ==
  [r \in {Suffix(p, d) : p \in Subtree(f, d)} |-> f[d \o r]]

existsSync(f, p) == p = << >> \/ p \in DOMAIN f
isDirectory(f, p) == p = << >> \/ (p \in DOMAIN f /\ f[p] = Dir)

\* Deno.removeSync(d, { recursive: true })
removeSync(f, d) == [p \in {q \in DOMAIN f : ~IsPrefix(d, q)} |-> f[p]]

\* ensureDirSync(d): d and its missing ancestors become directories.
ensureDirSync(f, d) ==
  LET add == {SubSeq(d, 1, n) : n \in 1..Len(d)} \ DOMAIN f
  IN [p \in DOMAIN f \cup add |-> IF p \in DOMAIN f THEN f[p] ELSE Dir]

\* Mutant: the source stays where it was.
renameSync_Copies(f, s, t) ==
  LET copied == {t \o Suffix(p, s) : p \in Subtree(f, s)}
      rest == {p \in DOMAIN f : ~IsPrefix(t, p)}
  IN [p \in rest \cup copied |->
        IF p \in copied THEN f[s \o Suffix(p, t)] ELSE f[p]]

\* Deno.renameSync(s, t) succeeds when s exists, the parent of t is a
\* directory and t, if it exists, is a file replaced by a file or an empty
\* directory replaced by a directory.
renameOk(f, s, t) ==
  /\ s \in DOMAIN f
  /\ isDirectory(f, Dirname(t))
  /\ t \in DOMAIN f =>
       IF f[s] = Dir THEN f[t] = Dir /\ Subtree(f, t) = {t} ELSE f[t] # Dir
renameSync(f, s, t) ==
  LET moved == {t \o Suffix(p, s) : p \in Subtree(f, s)}
      rest == {p \in DOMAIN f : ~IsPrefix(s, p) /\ ~IsPrefix(t, p)}
  IN [p \in rest \cup moved |->
        IF p \in moved THEN f[s \o Suffix(p, t)] ELSE f[p]]

\* copySync(s, t) of std/fs, overwrite not set: t must not exist.
copyOk(f, s, t) == s \in DOMAIN f /\ t \notin DOMAIN f /\ isDirectory(f, Dirname(t))
copySync(f, s, t) ==
  LET copied == {t \o Suffix(p, s) : p \in Subtree(f, s)}
  IN [p \in DOMAIN f \cup copied |->
        IF p \in copied THEN f[s \o Suffix(p, t)] ELSE f[p]]

\* A file is written (its directory is created as needed).
writeFile(f, p, v) ==
  LET g == ensureDirSync(f, Dirname(p))
  IN [q \in DOMAIN g \cup {p} |-> IF q = p THEN v ELSE g[q]]

\* ---- the project

\* context.files.input, in order, and the primary artifact of each input.
ProjectInputs == <<"a.qmd", "b.qmd">>
OutputFileOf(input) == IF input = "a.qmd" THEN <<"a.html">> ELSE <<"b.html">>
FilesDirOf(input) == IF input = "a.qmd" THEN <<"a_files">> ELSE <<"b_files">>
\* The artifact of the second format of an input rendered to two formats;
\* of the project's inputs, a.qmd is the one that may declare two.
SecondFileOf(input) == IF input = "a.qmd" THEN <<"a.docx">> ELSE <<"b.docx">>
DeclaresTwoFormats(input) == input = "a.qmd"
\* The library subdirectory the format of each input installs.
LibOf(input) == IF input = "a.qmd" THEN "A" ELSE "B"
\* The name of the figure render g writes into a supporting directory.
FigNames == <<"fig1", "fig2", "fig3", "fig4">>
Fig(g) == FigNames[g]

OutputDirName == "_site"
LibDirName == "libs"
\* The freezer directories (freeze.ts: kProjectFreezeDir, hidden under .quarto).
kProjectFreezeDir == <<"_freeze">>
HiddenFreezeDir == <<".quarto", "_freeze">>

\* Deno.realPathSync(context.dir)
ProjDirReal == "/real/project"

\* context.files.resources
ProjectResources == << <<"logo.png">>, <<"gone.png">> >>

\* A path to an input: as the caller typed it, relative to the working
\* directory, or absolute with every link resolved (Deno.realPathSync).
RelPath(name) == [form |-> "relative", name |-> name]
RealPath(name) == [form |-> "real", name |-> name]

\* Lines 228-234: isAbsolute(file) ? file : join(Deno.cwd(), file), then
\* Deno.realPathSync.
normalize(file) == RealPath(file.name)

Names(list) == {list[k].name : k \in 1..Len(list)}

\* context.files.input: the real paths of the project's inputs.
contextFilesInput == [k \in 1..Len(ProjectInputs) |-> RealPath(ProjectInputs[k])]

\* The explicit file lists callers pass to renderProject.
NoFiles == [given |-> FALSE, list |-> << >>]
Given(list) == [given |-> TRUE, list |-> list]
FilesArgs ==
  {NoFiles, Given(<<RelPath("a.qmd")>>), Given(<<RealPath("b.qmd")>>),
   Given(<<RealPath("a.qmd"), RealPath("b.qmd")>>),
   Given(<<RelPath("gone.qmd")>>)}

\* The project directory before the first render.
InitialTree ==
  LET files == {<<"a.qmd">>, <<"b.qmd">>, <<"data.csv">>, <<"logo.png">>}
  IN [p \in files |-> UserContent]

\* The project directory of a project whose visible freezer is established.
FrozenTree ==
  [p \in DOMAIN InitialTree \cup {kProjectFreezeDir} |->
     IF p \in DOMAIN InitialTree THEN InitialTree[p] ELSE Dir]

\* ---- what the renderer hands back for one input (RenderedFile)

\* Glob patterns match the files directly in the resource directory by
\* their extension; a pattern starting with "!" excludes.
ExtOf(name) ==
  IF name \in {"a.html", "b.html"} THEN "html"
  ELSE IF name \in {"data.csv"} THEN "csv"
  ELSE IF name \in {"logo.png", "missing.png"} THEN "png"
  ELSE "other"

\* renderedFile.resourceFiles: a.qmd declares globs and explicit files;
\* b.qmd is self-contained.
ResourceFilesOf(input, g) ==
  IF input = "a.qmd"
  THEN [globs |-> << [neg |-> FALSE, ext |-> "html"],
                     [neg |-> TRUE, ext |-> "csv"] >>,
        files |-> << <<"b.html">>, <<"a_files", Fig(g)>>, <<"data.csv">>,
                     <<"logo.png">>, <<"missing.png">> >>]
  ELSE [globs |-> << [neg |-> FALSE, ext |-> "csv"] >>,
        files |-> << <<"data.csv">>, <<"a.html">> >>]
SelfContainedOf(input) == input = "b.qmd"

RenderedFile(input, keepMd, g) ==
  [input |-> input,
   file |-> OutputFileOf(input),
   keepMd |-> keepMd,
   supporting |-> << FilesDirOf(input) >>,
   selfContained |-> SelfContainedOf(input),
   resourceFiles |-> ResourceFilesOf(input, g)]

\* What an input rendered to two formats hands back: one rendered file
\* for each format, both listing the supporting directory of the input.
RenderedFiles(input, outcome, g) ==
  LET renderedFile == RenderedFile(input, outcome = "keep-md", g)
  IN IF outcome = "formats"
     THEN <<renderedFile, [renderedFile EXCEPT !.file = SecondFileOf(input)]>>
     ELSE <<renderedFile>>

NoError == "none"
RenderError(input) == input

\* options.flags as the caller passes it: no flags object, an empty one,
\* one that sets executeDaemon.
NoFlags ==
  [present |-> FALSE, executeDir |-> Undefined, executeDaemon |-> Undefined]
CallerFlags ==
  {NoFlags,
   [present |-> TRUE, executeDir |-> Undefined, executeDaemon |-> Undefined],
   [present |-> TRUE, executeDir |-> Undefined, executeDaemon |-> "300"]}

\* Lines 268-278: the execute directory the project configures.
WithExecuteDir(flags, executeDir) ==
  IF flags.executeDir = Undefined /\ executeDir = "project"
  THEN [flags EXCEPT !.present = TRUE, !.executeDir = ProjDirReal]
  ELSE flags

\* Lines 280-288: executeDaemon is set to 0 for more than one file.
WithExecuteDaemon(flags, files) ==
  IF Len(files) > 1 /\ flags.present /\ flags.executeDaemon = Undefined
  THEN [flags EXCEPT !.executeDaemon = "0"]
  ELSE flags

\* ---- the call in flight

NoTree == [p \in {} |-> Dir]

RpIdle ==
  [pc |-> "idle", arg |-> NoFiles, incremental |-> FALSE,
   useFreezer |-> FALSE, hook |-> "not called",
   callerFlags |-> NoFlags, flags |-> NoFlags,
   alwaysExecuteFiles |-> NoFiles, files |-> << >>, idx |-> 0,
   fileResults |-> [files |-> << >>, error |-> NoError],
   projResults |-> [files |-> << >>, error |-> NoError],
   keepLibsDir |-> FALSE, keepFiles |-> FALSE, pending |-> << >>,
   libsIncremental |-> FALSE, srcLib |-> NoTree, replaced |-> {},
   warnings |-> {}, preRender |-> FALSE, hookFiles |-> << >>]

NoReturn == [kind |-> "none", at |-> "none", arg |-> NoFiles, files |-> << >>,
             error |-> NoError, postRender |-> FALSE]

\* Mutant: the variable is deleted on the normal return only (no finally).
EnvAfterTry_NoFinally(kind) == IF kind = "returned" THEN Undefined ELSE env

\* The finally block of lines 521-523: QUARTO_PROJECT_DIR after the call
\* left the try statement, however it left it.
EnvAfterTry(kind) == Undefined

Out(p) == <<OutputDirName>> \o p
HasOutputDir == config.outputDir # Undefined
HasLibDir == config.libDir # Undefined
libDirFull == <<LibDirName>>

\* The call leaves the try statement (by return or by an exception).
ExitTry(kind, at, result) ==
  /\ env' = EnvAfterTry(kind)
  /\ rp' = RpIdle
  /\ ret' = [kind |-> kind, at |-> at, arg |-> rp.arg, files |-> result.files,
             error |-> result.error, postRender |-> kind = "returned"]

\* An exception propagates before the try statement is entered.
ThrowBeforeTry(at) ==
  /\ rp' = RpIdle
  /\ ret' = [NoReturn EXCEPT !.kind = "threw", !.at = at, !.arg = rp.arg]
  /\ UNCHANGED env

\* Mutant: a list that names every input of the project is not incremental.
incremental_ProperSubset(files) ==
  files.given /\ Names(files.list) # Names(contextFilesInput)
             /\ Names(files.list) \subseteq Names(contextFilesInput)

\* Line 218: const incremental = !!files.
incremental(files) == files.given

\* renderProject(context, options, files), lines 206-235: incremental,
\* alwaysExecuteFiles and the normalisation of the files, which throws on a
\* render target that does not exist.
RenderProject(filesArg, useFreezer) ==
  /\ rp.pc = "idle"
  /\ gen < MaxRuns
  /\ gen' = gen + 1
  /\ LET alwaysExecuteFiles ==
           IF incremental(filesArg) /\ ~useFreezer THEN filesArg ELSE NoFiles
         normalized == alwaysExecuteFiles.given /\ filesArg.given
         missing ==
           /\ normalized
           /\ \E k \in 1..Len(filesArg.list) :
                 ~existsSync(fs, <<filesArg.list[k].name>>)
         files == IF normalized
                  THEN [k \in 1..Len(filesArg.list) |-> normalize(filesArg.list[k])]
                  ELSE filesArg.list
     IN IF missing
        THEN /\ rp' = RpIdle
             /\ ret' = [NoReturn EXCEPT !.kind = "threw", !.at = "files",
                                        !.arg = filesArg]
             /\ UNCHANGED env
        ELSE /\ rp' = [RpIdle EXCEPT !.pc = "incrementalRenderAll",
                                     !.arg = filesArg,
                                     !.incremental = incremental(filesArg),
                                     !.useFreezer = useFreezer,
                                     !.alwaysExecuteFiles = alwaysExecuteFiles,
                                     !.files = files]
             /\ ret' = NoReturn
             /\ UNCHANGED env
  /\ UNCHANGED <<fs, config>>
  /\ UNCHANGED otherThanRender

\* Mutant: the files stay the requested ones when the hook answers true.
IncrementalRenderAll_KeepsFiles(answer) ==
  /\ rp.pc = "incrementalRenderAll"
  /\ answer => (rp.arg.given /\ rp.alwaysExecuteFiles.given)
  /\ rp' = [rp EXCEPT
       !.pc = "preRender",
       !.hook = IF rp.arg.given /\ rp.alwaysExecuteFiles.given
                THEN (IF answer THEN "true" ELSE "false") ELSE "not called",
       !.files = IF ~rp.arg.given THEN contextFilesInput ELSE rp.files,
       !.useFreezer = rp.useFreezer \/ answer]
  /\ UNCHANGED <<fs, env, gen, config, ret>>
  /\ UNCHANGED otherThanRender

\* Lines 237-261: projType.incrementalRenderAll answers; the default of
\* files; projResults; ensureGitignore.
IncrementalRenderAll(answer) ==
  /\ rp.pc = "incrementalRenderAll"
  /\ answer => (rp.arg.given /\ rp.alwaysExecuteFiles.given)
  /\ rp' = [rp EXCEPT
       !.pc = "preRender",
       !.hook = IF rp.arg.given /\ rp.alwaysExecuteFiles.given
                THEN (IF answer THEN "true" ELSE "false") ELSE "not called",
       !.files = IF answer \/ ~rp.arg.given THEN contextFilesInput ELSE rp.files,
       !.useFreezer = rp.useFreezer \/ answer]
  /\ UNCHANGED <<fs, env, gen, config, ret>>
  /\ UNCHANGED otherThanRender

\* Lines 263-301: projType.preRender resolves; the flags of the options
\* are completed, the output directory is ensured and QUARTO_PROJECT_DIR
\* is set.  (options.flags is read from here on: it is drawn here.)
PreRender(flags, executeDir) ==
  /\ rp.pc = "preRender"
  /\ rp' = [rp EXCEPT
       !.pc = "renderFiles", !.idx = 1, !.preRender = TRUE,
       !.callerFlags = flags,
       !.flags = WithExecuteDaemon(WithExecuteDir(flags, executeDir), rp.files)]
  /\ fs' = IF HasOutputDir THEN ensureDirSync(fs, <<OutputDirName>>) ELSE fs
  /\ env' = ProjDirReal
  /\ UNCHANGED <<gen, config, ret>>
  /\ UNCHANGED otherThanRender

\* projType.preRender rejects.
PreRenderThrows ==
  /\ rp.pc = "preRender"
  /\ ThrowBeforeTry("preRender")
  /\ UNCHANGED <<fs, gen, config>>
  /\ UNCHANGED otherThanRender

\* What the renderer writes into the project directory for one input: the
\* primary artifact, its supporting directory (made anew) and, when a
\* library directory is configured, the library of its format.
RendererWrites(f, input, outcome, g) ==
  LET f0 == IF outcome = "formats"
            THEN writeFile(f, SecondFileOf(input), Content(g)) ELSE f
      f1 == writeFile(f0, OutputFileOf(input), Content(g))
      f2 == writeFile(removeSync(f1, FilesDirOf(input)),
                      FilesDirOf(input) \o <<Fig(g)>>, Content(g))
  IN IF HasLibDir
     THEN writeFile(f2, <<LibDirName, LibOf(input), "lib.js">>, Content(g))
     ELSE f2

\* renderFiles converts the next file of the list: it succeeds (to one
\* format, keeping the markdown or not, or to two formats) or fails; the
\* first failure is the error of the batch and the remaining files are
\* still processed.
RenderFile(outcome) ==
  /\ rp.pc = "renderFiles"
  /\ rp.idx <= Len(rp.files)
  /\ LET input == rp.files[rp.idx].name
     IN /\ ~existsSync(fs, <<input>>) => outcome = "fail"
        /\ outcome = "formats" => DeclaresTwoFormats(input)
        /\ IF outcome = "fail"
           THEN /\ rp' = [rp EXCEPT
                     !.idx = rp.idx + 1,
                     !.fileResults.error =
                        IF rp.fileResults.error = NoError
                        THEN RenderError(input) ELSE rp.fileResults.error]
                /\ UNCHANGED fs
           ELSE /\ rp' = [rp EXCEPT
                     !.idx = rp.idx + 1,
                     !.fileResults.files =
                        rp.fileResults.files \o
                          RenderedFiles(input, outcome, gen)]
                /\ fs' = RendererWrites(fs, input, outcome, gen)
  /\ UNCHANGED <<env, gen, config, ret>>
  /\ UNCHANGED otherThanRender

\* Mutant: a file's failure is thrown, which ends the render.
RenderFilesReturns_ThrowsError ==
  /\ rp.pc = "renderFiles"
  /\ rp.idx > Len(rp.files)
  /\ IF rp.fileResults.error # NoError
     THEN /\ ExitTry("threw", "renderFiles",
                     [files |-> << >>, error |-> rp.fileResults.error])
          /\ UNCHANGED <<fs, gen, config>>
     ELSE /\ rp' = [rp EXCEPT
                !.pc = IF HasOutputDir THEN "relocateFile" ELSE "track",
                !.idx = 1, !.callerFlags = NoFlags, !.flags = NoFlags]
          /\ UNCHANGED <<fs, env, gen, config, ret>>
  /\ UNCHANGED otherThanRender

\* await renderFiles(...) resolves with fileResults (lines 304-314).
RenderFilesReturns ==
  /\ rp.pc = "renderFiles"
  /\ rp.idx > Len(rp.files)
  /\ rp' = [rp EXCEPT !.pc = IF HasOutputDir THEN "relocateFile" ELSE "track",
                      !.idx = 1, !.callerFlags = NoFlags, !.flags = NoFlags]
  /\ UNCHANGED <<fs, env, gen, config, ret>>
  /\ UNCHANGED otherThanRender

\* await renderFiles(...) rejects: the finally block runs.
RenderFilesThrows ==
  /\ rp.pc = "renderFiles"
  /\ ExitTry("threw", "renderFiles", [files |-> << >>, error |-> NoError])
  /\ UNCHANGED <<fs, gen, config>>
  /\ UNCHANGED otherThanRender

\* ---- relocation into the output directory (lines 314-487)

\* Mutant: the target is not removed; the source is merged into it.
relocateDir_Merges(f, dir, copy) ==
  LET targetDir == Out(dir)
      srcDir == dir
      f2 == ensureDirSync(f, Dirname(targetDir))
      placed == {targetDir \o Suffix(p, srcDir) : p \in Subtree(f, srcDir)}
      kept == {p \in DOMAIN f2 : copy \/ ~IsPrefix(srcDir, p)}
  IN IF existsSync(f, srcDir)
     THEN [p \in kept \cup placed |->
             IF p \in placed THEN f[srcDir \o Suffix(p, targetDir)] ELSE f2[p]]
     ELSE f

\* Mutant: the source is moved whether or not a copy is asked for.
relocateDir_Moves(f, dir, copy) ==
  LET targetDir == Out(dir)
      f1 == IF existsSync(f, targetDir) THEN removeSync(f, targetDir) ELSE f
  IN IF existsSync(f1, dir)
     THEN renameSync(ensureDirSync(f1, Dirname(targetDir)), dir, targetDir)
     ELSE f1

\* relocateDir(dir, copy), lines 316-330: the target is removed, then the
\* source, if it exists, is moved or copied there.
relocateDir(f, dir, copy) ==
  LET targetDir == Out(dir)
      f1 == IF existsSync(f, targetDir) THEN removeSync(f, targetDir) ELSE f
      srcDir == dir
  IN IF existsSync(f1, srcDir)
     THEN LET f2 == ensureDirSync(f1, Dirname(targetDir))
          IN IF copy THEN copySync(f2, srcDir, targetDir)
                     ELSE renameSync(f2, srcDir, targetDir)
     ELSE f1

\* Lines 338-346: the rendered file is moved to the output directory.
RelocateRenderedFile ==
  /\ rp.pc = "relocateFile"
  /\ rp.idx <= Len(rp.fileResults.files)
  /\ LET renderedFile == rp.fileResults.files[rp.idx]
         outputFile == Out(renderedFile.file)
         f1 == ensureDirSync(fs, Dirname(outputFile))
         keepFiles == renderedFile.keepMd
     IN IF renameOk(f1, renderedFile.file, outputFile)
        THEN /\ fs' = renameSync(f1, renderedFile.file, outputFile)
             /\ rp' = [rp EXCEPT
                  !.pc = "supporting",
                  !.keepFiles = keepFiles,
                  !.keepLibsDir = rp.keepLibsDir \/ keepFiles,
                  !.pending = renderedFile.supporting,
                  !.replaced = rp.replaced \cup
                     (IF outputFile \in DOMAIN fs THEN {outputFile} ELSE {})]
             /\ UNCHANGED <<env, ret>>
        ELSE /\ ExitTry("threw", "relocateFile",
                        [files |-> << >>, error |-> NoError])
             /\ UNCHANGED fs
  /\ UNCHANGED <<gen, config>>
  /\ UNCHANGED otherThanRender

\* Lines 347-353: one supporting directory is copied (keep-md) or moved.
RelocateSupporting ==
  /\ rp.pc = "supporting"
  /\ rp.pending # << >>
  /\ LET file == Head(rp.pending)
     IN /\ fs' = relocateDir(fs, file, rp.keepFiles)
        /\ rp' = [rp EXCEPT
             !.pending = Tail(rp.pending),
             !.replaced = rp.replaced \cup
                (IF existsSync(fs, Out(file)) /\ existsSync(fs, file)
                 THEN {Out(file)} ELSE {})]
  /\ UNCHANGED <<env, gen, config, ret>>
  /\ UNCHANGED otherThanRender

\* resolvePathGlobs(root, globs, []): the files directly in root that a
\* pattern includes, and those a "!" pattern excludes.
TopLevelNames == <<"a.html", "b.html", "data.csv", "logo.png">>
GlobMatches(f, root, globs, neg) ==
  LET matched(name) ==
        /\ existsSync(f, root \o <<name>>)
        /\ \E k \in 1..Len(globs) :
              globs[k].neg = neg /\ globs[k].ext = ExtOf(name)
      paths == [k \in 1..Len(TopLevelNames) |-> root \o <<TopLevelNames[k]>>]
      keep(p) == matched(p[Len(p)])
  IN SelectSeq(paths, keep)
resolvePathGlobs(f, root, globs) ==
  [include |-> GlobMatches(f, root, globs, FALSE),
   exclude |-> GlobMatches(f, root, globs, TRUE)]

\* String.startsWith on joined paths: the names before the last one of the
\* prefix are equal and the last one is a prefix of the name at its place.
ProperNamePrefixes == {<<"docs", "docs-src">>}
NameStartsWith(name, prefix) ==
  name = prefix \/ <<prefix, name>> \in ProperNamePrefixes
startsWith(p, d) ==
  /\ Len(d) >= 1 /\ Len(p) >= Len(d)
  /\ SubSeq(p, 1, Len(d) - 1) = Dirname(d)
  /\ NameStartsWith(p[Len(d)], d[Len(d)])

Includes(seq, x) == \E k \in 1..Len(seq) : seq[k] = x

\* Mutant: the declared files are kept whether they exist or not.
ExistingFiles_All(f, paths) == paths

\* Line 371: .filter(existsSync)
ExistingFiles(f, paths) ==
  LET onDisk(p) == existsSync(f, p) IN SelectSeq(paths, onDisk)

\* Lines 355-392: the resource files of a rendered file.
ResourceFilesFor(f, renderedFile) ==
  LET resourceDir == Dirname(renderedFile.file)
      globs == renderedFile.resourceFiles.globs
      fileResourceFiles ==
        IF Len(globs) > 0 THEN resolvePathGlobs(f, resourceDir, globs)
        ELSE [include |-> << >>, exclude |-> << >>]
      joined == [k \in 1..Len(renderedFile.resourceFiles.files) |->
                   resourceDir \o renderedFile.resourceFiles.files[k]]
      resultFiles == IF ~renderedFile.selfContained
                     THEN ExistingFiles(f, joined) ELSE << >>
      include == fileResourceFiles.include \o resultFiles
      kept(file) ==
        IF Includes(fileResourceFiles.exclude, file) THEN FALSE
        ELSE IF \E k \in 1..Len(renderedFile.supporting) :
                   startsWith(file, renderedFile.supporting[k]) THEN FALSE
        ELSE TRUE
  IN SelectSeq(include, kept)

\* Lines 355-403: the resource files are resolved and the rendered file is
\* added to projResults.files.
ResolveResources ==
  /\ rp.pc = "supporting"
  /\ rp.pending = << >>
  /\ LET renderedFile == rp.fileResults.files[rp.idx]
         entry == [input |-> renderedFile.input,
                   file |-> renderedFile.file,
                   keepMd |-> renderedFile.keepMd,
                   supporting |-> renderedFile.supporting,
                   resourceFiles |-> ResourceFilesFor(fs, renderedFile)]
     IN rp' = [rp EXCEPT
          !.projResults.files = Append(rp.projResults.files, entry),
          !.idx = rp.idx + 1,
          !.pc = "relocateFile"]
  /\ UNCHANGED <<fs, env, gen, config, ret>>
  /\ UNCHANGED otherThanRender

\* ---- the library directory (lines 405-457)

\* Mutant: the library directory is always replaced as a whole.
libsIncremental_Never(isIncremental, useFreezer) == FALSE

\* Mutant: the subdirectories are always merged one at a time.
libsIncremental_Always(isIncremental, useFreezer) == TRUE

\* Line 413: the subdirectories are merged one at a time when the render
\* is incremental or uses the freezer.
libsIncremental(isIncremental, useFreezer) == isIncremental \/ useFreezer

LibNames == <<"A", "B">>
\* Deno.readDirSync(libDirFull): the subdirectories of the library directory.
LibSubdirs(f) ==
  LET isLib(name) == isDirectory(f, libDirFull \o <<name>>) /\ name # ""
      present(p) == p \in DOMAIN f /\ f[p] = Dir
      dirs == [k \in 1..Len(LibNames) |-> libDirFull \o <<LibNames[k]>>]
  IN SelectSeq(dirs, present)

\* A directory is copied to a place from which what was there is removed.
CopyReplacing(f, s, t) ==
  copySync(ensureDirSync(removeSync(f, t), Dirname(t)), s, t)

RECURSIVE CopyEachReplacing(_, _, _)
CopyEachReplacing(f, dirs, to) ==
  IF dirs = << >> THEN f
  ELSE CopyEachReplacing(CopyReplacing(f, Head(dirs), to \o Head(dirs)),
                         Tail(dirs), to)

\* copyToProjectFreezer(context, libDir, hidden, isIncremental): the library
\* directory is copied below the freezer directory, one subdirectory at a
\* time when isIncremental, as a whole otherwise.
copyToProjectFreezer(f, hidden, isIncremental) ==
  LET freezeDir == IF hidden THEN HiddenFreezeDir ELSE kProjectFreezeDir
  IN IF isIncremental
     THEN CopyEachReplacing(f, LibSubdirs(f), freezeDir)
     ELSE CopyReplacing(f, libDirFull, freezeDir \o libDirFull)

\* Mutant: the library directory is copied to both freezers.
FreezeLibDir_BothFreezers ==
  /\ rp.pc = "relocateFile"
  /\ rp.idx > Len(rp.fileResults.files)
  /\ IF HasLibDir /\ existsSync(fs, libDirFull)
     THEN LET incr == libsIncremental(rp.incremental, rp.useFreezer)
          IN /\ fs' = copyToProjectFreezer(
                        copyToProjectFreezer(fs, TRUE, incr), FALSE, incr)
             /\ rp' = [rp EXCEPT
                  !.pc = "mergeLibDir",
                  !.libsIncremental = incr,
                  !.srcLib = DirContent(fs, libDirFull),
                  !.pending = IF incr THEN LibSubdirs(fs)
                              ELSE << libDirFull >>]
     ELSE /\ rp' = [rp EXCEPT !.pc = "copyResources"]
          /\ UNCHANGED fs
  /\ UNCHANGED <<env, gen, config, ret>>
  /\ UNCHANGED otherThanRender

\* Lines 405-433: after the last rendered file, the library directory, if
\* there is one, is copied to the hidden freezer and to the visible one if
\* that exists; what is to be merged into the output directory is listed.
FreezeLibDir ==
  /\ rp.pc = "relocateFile"
  /\ rp.idx > Len(rp.fileResults.files)
  /\ IF HasLibDir /\ existsSync(fs, libDirFull)
     THEN LET incr == libsIncremental(rp.incremental, rp.useFreezer)
              f1 == copyToProjectFreezer(fs, TRUE, incr)
              f2 == IF existsSync(f1, kProjectFreezeDir)
                    THEN copyToProjectFreezer(f1, FALSE, incr)
                    ELSE f1
          IN /\ fs' = f2
             /\ rp' = [rp EXCEPT
                  !.pc = "mergeLibDir",
                  !.libsIncremental = incr,
                  !.srcLib = DirContent(fs, libDirFull),
                  !.pending = IF incr THEN LibSubdirs(fs)
                              ELSE << libDirFull >>]
     ELSE /\ rp' = [rp EXCEPT !.pc = "copyResources"]
          /\ UNCHANGED fs
  /\ UNCHANGED <<env, gen, config, ret>>
  /\ UNCHANGED otherThanRender

\* Lines 435-455: one relocateDir call of the merge, a copy when a rendered
\* file kept its markdown.
MergeLibDir ==
  /\ rp.pc = "mergeLibDir"
  /\ rp.pending # << >>
  /\ LET dir == Head(rp.pending)
     IN /\ fs' = relocateDir(fs, dir, rp.keepLibsDir)
        /\ rp' = [rp EXCEPT
             !.pending = Tail(rp.pending),
             !.replaced = rp.replaced \cup
                (IF existsSync(fs, Out(dir)) /\ existsSync(fs, dir)
                 THEN {Out(dir)} ELSE {})]
  /\ UNCHANGED <<env, gen, config, ret>>
  /\ UNCHANGED otherThanRender

\* Lines 446-448: after an incremental merge that moved the
\* subdirectories, the library directory is removed.
MergeLibDirEnds ==
  /\ rp.pc = "mergeLibDir"
  /\ rp.pending = << >>
  /\ fs' = IF rp.libsIncremental /\ ~rp.keepLibsDir
           THEN removeSync(fs, libDirFull) ELSE fs
  /\ rp' = [rp EXCEPT !.pc = "copyResources"]
  /\ UNCHANGED <<env, gen, config, ret>>
  /\ UNCHANGED otherThanRender

\* ---- the resource files (lines 459-487)

\* Mutant: the output files stay in the resource files.
FilterOutputFiles_None(files) == files

\* Lines 459-467: the output files are filtered out of the resource files.
FilterOutputFiles(files) ==
  LET outputFiles == [k \in 1..Len(files) |-> files[k].file]
      notOutput(resource) == ~Includes(outputFiles, resource)
  IN [k \in 1..Len(files) |->
        [files[k] EXCEPT !.resourceFiles = SelectSeq(@, notOutput)]]

RECURSIVE FlatResources(_)
FlatResources(files) ==
  IF files = << >> THEN << >>
  ELSE Head(files).resourceFiles \o FlatResources(Tail(files))

\* copyResourceFile(rootDir, srcFile, destFile)
copyResourceFile(f, srcFile, destFile) == writeFile(f, destFile, f[srcFile])

\* Lines 476-487: every resource file that exists and is a file is copied
\* below the output directory.
RECURSIVE CopyResourceFiles(_, _)
CopyResourceFiles(f, all) ==
  IF all = << >> THEN f
  ELSE LET file == Head(all)
           destPath == Out(file)
           f1 == IF existsSync(f, file) /\ f[file] # Dir
                 THEN copyResourceFile(f, file, destPath) ELSE f
       IN CopyResourceFiles(f1, Tail(all))

\* The resource files line 485 warns about.
NotFound(f, all) ==
  {all[k] : k \in {j \in 1..Len(all) :
                     ~existsSync(f, all[j]) /\ ~existsSync(f, Out(all[j]))}}

\* Mutant: the post-render hook is given the paths in the project directory.
postRenderFiles_InPlace(files) == [k \in 1..Len(files) |-> files[k].file]

\* Lines 509-516: the output files handed to projType.postRender.
postRenderFiles(files) ==
  [k \in 1..Len(files) |->
     IF HasOutputDir THEN Out(files[k].file) ELSE files[k].file]

\* Lines 459-487 and 503: the resource files are filtered and copied, the
\* error of the batch is forwarded and projType.postRender is called.
CopyResources ==
  /\ rp.pc = "copyResources"
  /\ LET files == FilterOutputFiles(rp.projResults.files)
         allResourceFiles == ProjectResources \o FlatResources(files)
     IN /\ fs' = CopyResourceFiles(fs, allResourceFiles)
        /\ rp' = [rp EXCEPT
             !.pc = "postRender",
             !.projResults = [files |-> files, error |-> rp.fileResults.error],
             !.hookFiles = postRenderFiles(files),
             !.warnings = NotFound(fs, allResourceFiles)]
  /\ UNCHANGED <<env, gen, config, ret>>
  /\ UNCHANGED otherThanRender

\* Lines 488-503: without an output directory the rendered files are
\* tracked where they are; the error is forwarded and postRender called.
TrackOutputs ==
  /\ rp.pc = "track"
  /\ LET rendered == rp.fileResults.files
         files == [k \in 1..Len(rendered) |->
                     [input |-> rendered[k].input,
                      file |-> rendered[k].file,
                      keepMd |-> rendered[k].keepMd,
                      supporting |-> rendered[k].supporting,
                      resourceFiles |-> << >>]]
     IN rp' = [rp EXCEPT
          !.pc = "postRender",
          !.hookFiles = postRenderFiles(files),
          !.projResults = [files |-> files, error |-> rp.fileResults.error]]
  /\ UNCHANGED <<fs, env, gen, config, ret>>
  /\ UNCHANGED otherThanRender

\* Lines 505-523: projType.postRender resolves and projResults is returned.
PostRender ==
  /\ rp.pc = "postRender"
  /\ ExitTry("returned", "postRender", rp.projResults)
  /\ UNCHANGED <<fs, gen, config>>
  /\ UNCHANGED otherThanRender

\* projType.postRender rejects.
PostRenderThrows ==
  /\ rp.pc = "postRender"
  /\ ExitTry("threw", "postRender", [files |-> << >>, error |-> NoError])
  /\ UNCHANGED <<fs, gen, config>>
  /\ UNCHANGED otherThanRender

\* A file system call of the relocation or of the library merge throws.
RelocationThrows ==
  /\ rp.pc \in {"relocateFile", "supporting", "mergeLibDir", "copyResources"}
  /\ ExitTry("threw", rp.pc, [files |-> << >>, error |-> NoError])
  /\ UNCHANGED <<fs, gen, config>>
  /\ UNCHANGED otherThanRender

\* ====================================================================
\*  PART 3 - the preview server (serve.ts: serveProject, serveFile)
\* ====================================================================

Requests == 1..MaxRequests

\* What a request asks for: the watcher's socket, a directory without its
\* trailing slash, a file that is not HTML, an HTML page.
RequestKinds == {"watcher", "redirect", "file", "html"}

NoRequest ==
  [pc |-> "none", kind |-> "none", status |-> 0, started |-> FALSE,
   outcome |-> "none", logged |-> FALSE]

\* Deno.readFileSync(filePath) and the response: 200, or the 404 of
\* serveFallback when the file is not there.
StatusOfRead(onDisk) == IF onDisk THEN 200 ELSE 404

\* ---- PromiseQueue (core/promise.ts): one promise runs at a time, the
\* others wait in the order they were enqueued.

QueueState(q, run, fl) == [queue |-> q, running |-> run, inFlight |-> fl]

\* Mutant: the next render is started although one is running.
dequeue_Overlapping(q, run, fl) ==
  IF q = << >> THEN QueueState(q, run, fl)
  ELSE QueueState(Tail(q), TRUE, fl \cup {Head(q)})

\* dequeue(): the head of the queue is started unless a render is running.
dequeue(q, run, fl) ==
  IF run \/ q = << >> THEN QueueState(q, run, fl)
  ELSE QueueState(Tail(q), TRUE, fl \cup {Head(q)})

\* enqueue(promise): the render is appended, then dequeue().
enqueue(q, run, fl, r) == dequeue(Append(q, r), run, fl)

\* Lines 646-647 and 576-602: the server hands a request to the handler,
\* which runs to its first await.
Handler(r, kind, onDisk) ==
  /\ req[r].pc = "none"
  /\ kind # "html" => onDisk
  /\ req' = [req EXCEPT ![r] =
       IF kind = "watcher"
       THEN [NoRequest EXCEPT !.pc = "done", !.kind = kind, !.status = 101]
       ELSE IF kind = "redirect"
       THEN [NoRequest EXCEPT !.pc = "done", !.kind = kind, !.status = 301]
       ELSE IF kind = "file"
       THEN [NoRequest EXCEPT !.pc = "done", !.kind = kind,
                              !.status = StatusOfRead(onDisk)]
       ELSE [NoRequest EXCEPT !.pc = "lookup", !.kind = kind]]
  /\ UNCHANGED <<renderQueue, running, inFlight>>
  /\ UNCHANGED otherThanServe

\* serveFile, lines 762-780: inputFileForOutputFile resolved; a page that
\* has an input file has its render enqueued, any other is read.
InputFileLookup(r, found, onDisk) ==
  /\ req[r].pc = "lookup"
  /\ IF found
     THEN LET qs == enqueue(renderQueue, running, inFlight, r)
          IN /\ renderQueue' = qs.queue
             /\ running' = qs.running
             /\ inFlight' = qs.inFlight
             /\ req' = [req EXCEPT ![r].pc = "queued",
                                   ![r].started = r \in qs.inFlight]
     ELSE /\ req' = [req EXCEPT ![r].pc = "done",
                                ![r].status = StatusOfRead(onDisk)]
          /\ UNCHANGED <<renderQueue, running, inFlight>>
  /\ UNCHANGED otherThanServe

\* The renderProject call of lines 775-779 resolves or rejects: the queue
\* settles the promise of its request and starts the next render.
RenderSettles(r, outcome) ==
  /\ r \in inFlight
  /\ LET qs == dequeue(renderQueue, FALSE, inFlight \ {r})
     IN /\ renderQueue' = qs.queue
        /\ running' = qs.running
        /\ inFlight' = qs.inFlight
        /\ req' = [q \in Requests |->
             IF q = r THEN [req[q] EXCEPT !.pc = "settled", !.outcome = outcome]
             ELSE IF q \in qs.inFlight THEN [req[q] EXCEPT !.started = TRUE]
             ELSE req[q]]
  /\ UNCHANGED otherThanServe

\* serveFile, lines 781-805, and the handler, lines 601-611: a rejection
\* is logged, the file is read and the response is sent.
Respond(r, onDisk) ==
  /\ req[r].pc = "settled"
  /\ req' = [req EXCEPT ![r].pc = "done",
                        ![r].logged = req[r].outcome = "rejected",
                        ![r].status = StatusOfRead(onDisk)]
  /\ UNCHANGED <<renderQueue, running, inFlight>>
  /\ UNCHANGED otherThanServe

\* ====================================================================
\*  PART 4 - input discovery (project-context.ts, projectInputFiles)
\* ====================================================================

Range(list) == {list[k] : k \in 1..Len(list)}

\* The files an engine manages next to an input of its own
\* (executionEngineKeepFiles): knitr keeps the markdown it knits.
executionEngineKeepFiles(engine, file) ==
  IF engine = "knitr" /\ file = "doc.Rmd" THEN <<"doc.md">> ELSE << >>

\* The names a path of the project directory is made of.
PathNames(file) ==
  CASE file = "docs/index.md" -> <<"docs", "index.md">>
    [] file = "docs-src/index.qmd" -> <<"docs-src", "index.qmd">>
    [] OTHER -> <<file>>

\* Line 302: outputDir && file.startsWith(join(dir, outputDir)).
InOutputDir(file, outputDir) ==
  outputDir # Undefined /\ startsWith(PathNames(file), <<outputDir>>)

\* projectIgnores, lines 291-299, as far as the walked paths go: the
\* README of the project.
projectIgnored(file) == file = "README.md"

\* What the walk hands over: a path found by walking a directory (addDir)
\* or named as a file by the render list (lines 344-351).
WalkEntries ==
  { [via |-> "dir", path |-> "index.qmd"],
    [via |-> "file", path |-> "index.qmd"],
    [via |-> "dir", path |-> "doc.Rmd"],
    [via |-> "dir", path |-> "doc.md"],
    [via |-> "dir", path |-> "README.md"],
    [via |-> "dir", path |-> "style.css"],
    [via |-> "dir", path |-> "docs/index.md"],
    [via |-> "dir", path |-> "docs-src/index.qmd"] }

\* lodash's uniq keeps the first occurrence of each value.
RECURSIVE baseUniq(_, _)
baseUniq(array, result) ==
  IF array = << >> THEN result
  ELSE baseUniq(Tail(array),
                IF Head(array) \in Range(result) THEN result
                ELSE Append(result, Head(array)))

RECURSIVE baseUniqLast(_)
baseUniqLast(array) ==
  IF array = << >> THEN << >>
  ELSE IF Head(array) \in Range(Tail(array)) THEN baseUniqLast(Tail(array))
       ELSE <<Head(array)>> \o baseUniqLast(Tail(array))

uniq_KeepsLast(array) == baseUniqLast(array)

uniq(array) == baseUniq(array, << >>)

\* lodash's difference keeps, in their order, the values of array that
\* are not among values.
difference(array, values) ==
  SelectSeq(array, LAMBDA x : x \notin Range(values))

PifIdle ==
  [pc |-> "idle", outputDir |-> Undefined, walk |-> << >>,
   files |-> << >>, engines |-> << >>, keepFiles |-> << >>,
   inputFiles |-> << >>]

\* projectInputFiles, lines 281-289: the three lists start empty.
ProjectInputFiles(outputDir) ==
  /\ pif.pc = "idle"
  /\ pif' = [PifIdle EXCEPT !.pc = "walking", !.outputDir = outputDir]
  /\ UNCHANGED otherThanDiscovery

\* addFile, lines 301-315.
addFile(p, file) ==
  IF InOutputDir(file, p.outputDir) THEN p
  ELSE LET engine == fileExecutionEngine(file)
       IN IF engine = Undefined THEN p
          ELSE [p EXCEPT
                 !.engines = IF engine \in Range(p.engines) THEN p.engines
                             ELSE Append(p.engines, engine),
                 !.files = Append(p.files, file),
                 !.keepFiles = p.keepFiles \o
                                 executionEngineKeepFiles(engine, file)]

\* The next path found, kept in walk: addDir tests it against the
\* ignores (lines 333-336), a file of the render list goes to addFile
\* (line 349).
Discover(entry) ==
  /\ pif.pc = "walking"
  /\ Len(pif.walk) < MaxWalk
  /\ LET p == [pif EXCEPT !.walk = Append(pif.walk, entry)]
     IN pif' = IF entry.via = "dir" /\ projectIgnored(entry.path) THEN p
               ELSE addFile(p, entry.path)
  /\ UNCHANGED otherThanDiscovery

\* Lines 356-361, once every path is found.
ProjectInputFilesReturns ==
  /\ pif.pc = "walking"
  /\ pif' = [pif EXCEPT !.pc = "returned",
               !.inputFiles = difference(uniq(pif.files),
                                         uniq(pif.keepFiles))]
  /\ UNCHANGED otherThanDiscovery

\* ====================================================================
\*  PART 5 - renderProject calls that overlap at their awaits
\* ====================================================================

Invocations == 1..MaxOverlap

\* renderProject is called: it runs up to await ensureGitignore (line 261)
\* and, that done, to await projType.preRender (line 265).
CallRenderProject(c) ==
  /\ calls[c] = "idle"
  /\ calls' = [calls EXCEPT ![c] = "preRender"]
  /\ UNCHANGED env
  /\ UNCHANGED otherThanOverlap

\* The pre-render hook resolves: QUARTO_PROJECT_DIR is set (line 300) and
\* renderFiles is awaited (line 304); or it rejects, before the try
\* statement.
PreRenderSettles(c, outcome) ==
  /\ calls[c] = "preRender"
  /\ IF outcome = "resolved"
     THEN /\ calls' = [calls EXCEPT ![c] = "renderFiles"]
          /\ env' = ProjDirReal
     ELSE /\ calls' = [calls EXCEPT ![c] = "threw"]
          /\ UNCHANGED env
  /\ UNCHANGED otherThanOverlap

\* renderFiles resolves: the relocation runs and projType.postRender is
\* awaited (line 507); or it rejects and the finally block runs.
RenderFilesSettles(c, outcome) ==
  /\ calls[c] = "renderFiles"
  /\ IF outcome = "resolved"
     THEN /\ calls' = [calls EXCEPT ![c] = "postRender"]
          /\ UNCHANGED env
     ELSE /\ calls' = [calls EXCEPT ![c] = "threw"]
          /\ env' = EnvAfterTry("threw")
  /\ UNCHANGED otherThanOverlap

\* The post-render hook resolves or rejects: the finally block runs.
PostRenderSettles(c, outcome) ==
  /\ calls[c] = "postRender"
  /\ calls' = [calls EXCEPT ![c] = IF outcome = "resolved" THEN "returned"
                                   ELSE "threw"]
  /\ env' = EnvAfterTry(IF outcome = "resolved" THEN "returned" ELSE "threw")
  /\ UNCHANGED otherThanOverlap

\* ====================================================================
\*  PART 6 - resources named by the configuration
\*           (project-context.ts, projectConfigResources)
\* ====================================================================

kHtmlMathMethod == "html-math-method"
MetadataKeys == {"format", "project", "site-navbar", kHtmlMathMethod, "method"}

\* The string values of a configuration: a path in one of its written
\* forms (relative, relative with a leading "./", absolute to the real
\* file) or a text that names no file.
DottedPath(name) == [form |-> "dotted", name |-> name]
MetadataStrings ==
  { RelPath("logo.png"), DottedPath("logo.png"), RealPath("logo.png"),
    RelPath("images"), RelPath("My Site") }

\* What join(dir, value), or the absolute value, names on disk.
ConfigPathKind(value) ==
  IF value.name = "logo.png" THEN "file"
  ELSE IF value.name = "images" THEN "dir"
  ELSE "missing"

\* Deno.realPathSync(path): every written form of a file has one real path.
realPathSync(value) == RealPath(value.name)

\* The values of a configuration: scalars, arrays and mappings (the
\* entries of a mapping in their order).
Str(v) == [t |-> "string", v |-> v]
Num == [t |-> "number", v |-> << >>]
Arr(elements) == [t |-> "array", v |-> elements]
Map(entries) == [t |-> "object", v |-> entries]
Entry(k, n) == [key |-> k, value |-> n]

RECURSIVE MetadataValues(_)
MetadataValues(depth) ==
  IF depth = 0 THEN {Str(v) : v \in MetadataStrings} \cup {Num}
  ELSE LET below == MetadataValues(depth - 1)
       IN below \cup {Arr(<<n>>) : n \in below}
                \cup {Map(<<Entry(k, n)>>) : k \in MetadataKeys, n \in below}

\* The configurations: a mapping with a title and one more key.
Metadatas ==
  {Map(<<Entry("title", Str(RelPath("My Site"))), Entry(k, n)>>) :
     k \in MetadataKeys, n \in MetadataValues(MaxNesting)}

\* type.resourceIgnoreFields() of the project types.
ProjectTypes == {"default", "site"}
typeResourceIgnoreFields(type) == IF type = "site" THEN {"site-navbar"} ELSE {}

\* Lines 369-371.
resourceIgnoreFields(type) == {"project"} \cup typeResourceIgnoreFields(type)

\* ld.forEach(collection, (value, index) => ...): the elements of an array
\* come with their position (a number, which is no key), the values of a
\* mapping with their key.
NumberIndex == "0"
forEachItems(collection) ==
  IF collection.t = "array"
  THEN [k \in 1..Len(collection.v) |->
          [index |-> NumberIndex, value |-> collection.v[k]]]
  ELSE [k \in 1..Len(collection.v) |->
          [index |-> collection.v[k].key, value |-> collection.v[k].value]]

\* Mutant: the collections inside a collection are not searched.
findResources_Flat(collection, parentKey, ignoreFields) ==
  LET items == forEachItems(collection)
      ofItem(k) ==
        IF /\ items[k].index \notin ignoreFields
           /\ items[k].value.t = "string"
           /\ ConfigPathKind(items[k].value.v) = "file"
        THEN <<realPathSync(items[k].value.v)>> ELSE << >>
      upTo[k \in 0..Len(items)] ==
        IF k = 0 THEN << >> ELSE upTo[k - 1] \o ofItem(k)
  IN upTo[Len(items)]

\* findResources(collection, parentKey), lines 373-401: what it pushes
\* onto resources, in order.
RECURSIVE findResources(_, _, _)
findResources(collection, parentKey, ignoreFields) ==
  LET items == forEachItems(collection)
      ofItem(k) ==
        LET value == items[k].value
            index == items[k].index
        IN IF parentKey = kHtmlMathMethod /\ index = "method" THEN << >>
           ELSE IF index \in ignoreFields THEN << >>
           ELSE IF value.t = "array"
                THEN findResources(value, Undefined, ignoreFields)
           ELSE IF value.t = "object"
                THEN findResources(value, index, ignoreFields)
           ELSE IF value.t = "string"
                THEN IF ConfigPathKind(value.v) = "file"
                     THEN <<realPathSync(value.v)>> ELSE << >>
           ELSE << >>
      upTo[k \in 0..Len(items)] ==
        IF k = 0 THEN << >> ELSE upTo[k - 1] \o ofItem(k)
  IN upTo[Len(items)]

CrIdle == [pc |-> "idle", metadata |-> Map(<< >>), type |-> "default",
           resources |-> << >>]

\* projectConfigResources(dir, type, metadata) is called.
ProjectConfigResources(type, metadata) ==
  /\ cr.pc = "idle"
  /\ cr' = [CrIdle EXCEPT !.pc = "called", !.type = type,
                          !.metadata = metadata]
  /\ UNCHANGED otherThanConfig

\* Lines 403-404.
ProjectConfigResourcesReturns ==
  /\ cr.pc = "called"
  /\ cr' = [cr EXCEPT !.pc = "returned",
              !.resources = findResources(cr.metadata, Undefined,
                                          resourceIgnoreFields(cr.type))]
  /\ UNCHANGED otherThanConfig

\* ====================================================================
\*  PART 7 - the sitemap of a website (website-sitemap.ts)
\* ====================================================================

\* The output files of the website, as paths below the output directory.
SiteFiles == {"index.html", "about.html"}
OutputFileLists ==
  {<<"index.html">>, <<"about.html">>, <<"index.html", "about.html">>}

BaseUrl == "https://example.org/"

\* fileLoc(file), lines 71-74: the base url joined with the file's path
\* relative to the output directory.
fileLoc(file) == <<BaseUrl, file>>

\* Date.toISOString() of an mtime.
toISOString(mtime) == <<"T", mtime>>

\* A sitemap.xml, if there is one, is a sequence of url elements; the loc
\* and the lastmod of a url element are the text of its child of that
\* name, if it has one.
Absent == [exists |-> FALSE, urls |-> << >>]
Sitemap(urls) == [exists |-> TRUE, urls |-> urls]
Url(loc, lastmod) == [loc |-> loc, lastmod |-> lastmod]

\* The sitemap.xml that may be in the output directory before the first
\* render: none, or one written by another generator (in the sitemap
\* protocol lastmod is optional).
ExistingSitemaps ==
  { Absent,
    Sitemap(<< Url(fileLoc("index.html"), toISOString(0)),
               Url(<<BaseUrl, "old.html">>, Undefined) >>),
    Sitemap(<< Url(<<BaseUrl, "old.html">>, Undefined),
               Url(fileLoc("about.html"), toISOString(0)) >>) }

\* writeSitemap(sitemapPath, urlset), lines 144-152: the template writes a
\* url element with a loc and a lastmod for each entry of urlset.
writeSitemap(urlset) ==
  Sitemap([k \in 1..Len(urlset) |-> Url(urlset[k].loc, urlset[k].lastmod)])

\* readSitemap(sitemapPath), lines 121-142: the text handler assigns loc
\* and lastmod, the end_element handler of url pushes an entry when both
\* are set; neither variable is reset between url elements.
RECURSIVE parseUrls(_, _, _, _)
parseUrls(elements, loc, lastmod, urlset) ==
  IF elements = << >> THEN urlset
  ELSE LET element == Head(elements)
           loc1 == IF element.loc # Undefined THEN element.loc ELSE loc
           lastmod1 == IF element.lastmod # Undefined THEN element.lastmod
                       ELSE lastmod
       IN parseUrls(Tail(elements), loc1, lastmod1,
                    IF loc1 # Undefined /\ lastmod1 # Undefined
                    THEN Append(urlset, [loc |-> loc1, lastmod |-> lastmod1])
                    ELSE urlset)
readSitemap(sitemap) ==
  parseUrls(sitemap.urls, Undefined, Undefined, << >>)

\* urlsetEntry(outputFile), lines 78-81.
urlsetEntry(file, mtimes) ==
  [loc |-> fileLoc(file), lastmod |-> toISOString(mtimes[file])]

\* Lines 88-101: the reduce over the output files, from the urlset read.
RECURSIVE upsertAll(_, _, _)
upsertAll(outputFiles, mtimes, urlset) ==
  IF outputFiles = << >> THEN urlset
  ELSE LET file == Head(outputFiles)
           loc == fileLoc(file)
           found == {k \in 1..Len(urlset) : urlset[k].loc = loc}
           first == CHOOSE k \in found : \A j \in found : k <= j
       IN upsertAll(Tail(outputFiles), mtimes,
            IF found # {}
            THEN [urlset EXCEPT ![first].lastmod = toISOString(mtimes[file])]
            ELSE Append(urlset, urlsetEntry(file, mtimes)))

NoUpdate == [files |-> << >>, incremental |-> FALSE]

\* A render of the website ends: the files it wrote have the mtime of this
\* render, and the post-render hook calls updateSitemap with them.
SiteRendered(outputFiles, isIncremental) ==
  /\ site.pc = "idle"
  /\ site.updates < MaxUpdates
  /\ ~isIncremental => Len(outputFiles) = Cardinality(SiteFiles)
  /\ site' = [site EXCEPT
       !.pc = "postRender",
       !.updates = site.updates + 1,
       !.mtime = [f \in SiteFiles |->
                    IF \E k \in 1..Len(outputFiles) : outputFiles[k] = f
                    THEN site.updates + 1 ELSE site.mtime[f]],
       !.call = [files |-> outputFiles, incremental |-> isIncremental]]
  /\ UNCHANGED otherThanSitemap

\* updateSitemap(context, outputFiles, incremental), lines 40-118.
updateSitemap ==
  /\ site.pc = "postRender"
  /\ LET outputFiles == site.call.files
         urlset ==
           IF ~site.call.incremental \/ site.sitemap = Absent
           THEN [k \in 1..Len(outputFiles) |->
                   urlsetEntry(outputFiles[k], site.mtime)]
           ELSE upsertAll(outputFiles, site.mtime, readSitemap(site.sitemap))
     IN site' = [site EXCEPT
          !.pc = "idle",
          !.robots = IF site.srcRobotsTxt THEN "copied"
                     ELSE IF site.baseUrl THEN "generated" ELSE site.robots,
          !.sitemap = IF site.baseUrl THEN writeSitemap(urlset) ELSE Absent,
          !.before = site.sitemap]
  /\ UNCHANGED otherThanSitemap

\* ---- specifications

IxAtRest ==
  /\ now = 0
  /\ inputFile = [i \in Inputs |-> [kind |-> "missing", mtime |-> 0,
                                    content |-> NoContent]]
  /\ cfgFile = [f \in {CfgNames[1], CfgNames[2]} |->
                   [exists |-> FALSE, mtime |-> 0]]
  /\ indexFile = [i \in Inputs |->
                   [exists |-> FALSE, mtime |-> 0, text |-> Corrupt]]
  /\ lk = Idle
  /\ last = "none"
  /\ prev = [i \in Inputs |-> NoEntry]
  /\ cfgRaised = [i \in Inputs |-> FALSE]

ServeAtRest ==
  /\ req = [r \in Requests |-> NoRequest]
  /\ renderQueue = << >>
  /\ running = FALSE
  /\ inFlight = {}

DiscoveryAtRest == pif = PifIdle

OverlapAtRest == calls = [c \in Invocations |-> "idle"]

ConfigAtRest == cr = CrIdle

SiteAtRest ==
  [pc |-> "idle", updates |-> 0, baseUrl |-> TRUE, srcRobotsTxt |-> FALSE,
   robots |-> "absent", sitemap |-> Absent, before |-> Absent,
   mtime |-> [f \in SiteFiles |-> 0], call |-> NoUpdate]
SitemapAtRest == site = SiteAtRest

RenderAtRest ==
  /\ fs = InitialTree
  /\ env = Undefined
  /\ gen = 0
  /\ config = [outputDir |-> Undefined, libDir |-> Undefined]
  /\ rp = RpIdle
  /\ ret = NoReturn

InitInputFile(i) ==
  IF i \in Indexable
  THEN {[kind |-> "file", mtime |-> 0,
         content |-> [title |-> Undefined, heading |-> "H"]]}
  ELSE IF i = "gone.qmd"
       THEN {[kind |-> "missing", mtime |-> 0, content |-> NoContent]}
  ELSE IF i = "docs"
       THEN {[kind |-> "dir", mtime |-> 0, content |-> NoContent]}
  ELSE {[kind |-> "file", mtime |-> 0, content |-> NoContent]}

\* A cache file left by an earlier process is absent or does not parse.
InitIndexFile ==
  { [exists |-> FALSE, mtime |-> 0, text |-> Corrupt],
    [exists |-> TRUE, mtime |-> 0, text |-> Corrupt] }

InitIx ==
  /\ now = 0
  /\ inputFile \in {f \in [Inputs -> UNION {InitInputFile(i) : i \in Inputs}] :
                       \A i \in Inputs : f[i] \in InitInputFile(i)}
  /\ cfgFile \in [{CfgNames[1], CfgNames[2]} ->
                    {[exists |-> e, mtime |-> 0] : e \in BOOLEAN}]
  /\ indexFile \in [Inputs -> InitIndexFile]
  /\ \A i \in Inputs \ {"a.qmd"} : ~indexFile[i].exists
  /\ lk = Idle
  /\ last = Ended(Undefined, "none")
  /\ prev = [i \in Inputs |-> NoEntry]
  /\ cfgRaised = [i \in Inputs |-> FALSE]
  /\ RenderAtRest
  /\ ServeAtRest
  /\ DiscoveryAtRest
  /\ OverlapAtRest
  /\ ConfigAtRest
  /\ SitemapAtRest

NextIx ==
  \/ \E i \in Inputs : LookupStart(i)
  \/ RenderFormatsDone
  \/ PartitionDone
  \/ RegenerationFails
  \/ Tick
  \/ \E i \in Indexable, c \in InputContents : SaveInput(i, c)
  \/ \E f \in {CfgNames[1], CfgNames[2]} : SaveConfig(f)

SpecIndex == InitIx /\ [][NextIx]_ixvars

InitRender ==
  /\ fs = InitialTree
  /\ env = Undefined
  /\ gen = 0
  /\ config \in [outputDir : {Undefined, OutputDirName},
                 libDir : {Undefined, LibDirName}]
  /\ rp = RpIdle
  /\ ret = NoReturn
  /\ IxAtRest
  /\ ServeAtRest
  /\ DiscoveryAtRest
  /\ OverlapAtRest
  /\ ConfigAtRest
  /\ SitemapAtRest

NextRender ==
  \/ \E filesArg \in FilesArgs, useFreezer \in BOOLEAN :
        RenderProject(filesArg, useFreezer)
  \/ \E answer \in BOOLEAN : IncrementalRenderAll(answer)
  \/ \E flags \in CallerFlags, executeDir \in {Undefined, "project"} :
        PreRender(flags, executeDir)
  \/ PreRenderThrows
  \/ \E outcome \in {"fail", "keep-md", "plain", "formats"} :
        RenderFile(outcome)
  \/ RenderFilesReturns
  \/ RenderFilesThrows
  \/ RelocateRenderedFile
  \/ RelocateSupporting
  \/ ResolveResources
  \/ FreezeLibDir
  \/ MergeLibDir
  \/ MergeLibDirEnds
  \/ CopyResources
  \/ TrackOutputs
  \/ PostRender
  \/ PostRenderThrows
  \/ RelocationThrows

vars == <<ixvars, rvars, svars, dvars, ovars, cvars, wvars>>

SpecRender == InitRender /\ [][NextRender]_vars

\* The renders of a project with an output directory and a library
\* directory, with and without a visible freezer.
InitFreezer ==
  /\ fs \in {InitialTree, FrozenTree}
  /\ env = Undefined
  /\ gen = 0
  /\ config = [outputDir |-> OutputDirName, libDir |-> LibDirName]
  /\ rp = RpIdle
  /\ ret = NoReturn
  /\ IxAtRest
  /\ ServeAtRest
  /\ DiscoveryAtRest
  /\ OverlapAtRest
  /\ ConfigAtRest
  /\ SitemapAtRest

NextFreezer ==
  \/ \E filesArg \in {NoFiles, Given(<<RealPath("a.qmd")>>)},
        useFreezer \in BOOLEAN :
        RenderProject(filesArg, useFreezer)
  \/ \E answer \in BOOLEAN : IncrementalRenderAll(answer)
  \/ PreRender(NoFlags, Undefined)
  \/ PreRenderThrows
  \/ \E outcome \in {"fail", "keep-md", "plain"} : RenderFile(outcome)
  \/ RenderFilesReturns
  \/ RenderFilesThrows
  \/ RelocateRenderedFile
  \/ RelocateSupporting
  \/ ResolveResources
  \/ FreezeLibDir
  \/ MergeLibDir
  \/ MergeLibDirEnds
  \/ CopyResources
  \/ PostRender
  \/ PostRenderThrows
  \/ RelocationThrows

SpecFreezer == InitFreezer /\ [][NextFreezer]_vars

InitOverlap ==
  /\ OverlapAtRest
  /\ IxAtRest
  /\ RenderAtRest
  /\ ServeAtRest
  /\ DiscoveryAtRest
  /\ ConfigAtRest
  /\ SitemapAtRest

NextOverlap ==
  \/ \E c \in Invocations : CallRenderProject(c)
  \/ \E c \in Invocations, outcome \in {"resolved", "rejected"} :
        PreRenderSettles(c, outcome)
  \/ \E c \in Invocations, outcome \in {"resolved", "rejected"} :
        RenderFilesSettles(c, outcome)
  \/ \E c \in Invocations, outcome \in {"resolved", "rejected"} :
        PostRenderSettles(c, outcome)

SpecOverlap == InitOverlap /\ [][NextOverlap]_vars

InitConfig ==
  /\ cr = CrIdle
  /\ IxAtRest
  /\ RenderAtRest
  /\ ServeAtRest
  /\ DiscoveryAtRest
  /\ OverlapAtRest
  /\ SitemapAtRest

NextConfig ==
  \/ \E type \in ProjectTypes, metadata \in Metadatas :
        ProjectConfigResources(type, metadata)
  \/ ProjectConfigResourcesReturns

SpecConfig == InitConfig /\ [][NextConfig]_vars

\* A website with or without a site-url and a robots.txt of its own, whose
\* output directory may hold a sitemap.xml.
InitSitemap ==
  /\ site \in {[SiteAtRest EXCEPT !.baseUrl = b, !.srcRobotsTxt = r,
                                  !.sitemap = x] :
                 b \in BOOLEAN, r \in BOOLEAN, x \in ExistingSitemaps}
  /\ IxAtRest
  /\ RenderAtRest
  /\ ServeAtRest
  /\ DiscoveryAtRest
  /\ OverlapAtRest
  /\ ConfigAtRest

NextSitemap ==
  \/ \E outputFiles \in OutputFileLists, isIncremental \in BOOLEAN :
        SiteRendered(outputFiles, isIncremental)
  \/ updateSitemap

SpecSitemap == InitSitemap /\ [][NextSitemap]_vars

InitServe ==
  /\ ServeAtRest
  /\ IxAtRest
  /\ RenderAtRest
  /\ DiscoveryAtRest
  /\ OverlapAtRest
  /\ ConfigAtRest
  /\ SitemapAtRest

NextServe ==
  \/ \E r \in Requests, kind \in RequestKinds, onDisk \in BOOLEAN :
        Handler(r, kind, onDisk)
  \/ \E r \in Requests, found \in BOOLEAN, onDisk \in BOOLEAN :
        InputFileLookup(r, found, onDisk)
  \/ \E r \in Requests, outcome \in {"resolved", "rejected"} :
        RenderSettles(r, outcome)
  \/ \E r \in Requests, onDisk \in BOOLEAN : Respond(r, onDisk)

\* A renderProject call that was started ends: it resolves or rejects.
SpecServe ==
  /\ InitServe
  /\ [][NextServe]_vars
  /\ WF_vars(\E r \in Requests, outcome \in {"resolved", "rejected"} :
               RenderSettles(r, outcome))

InitDiscovery ==
  /\ pif = PifIdle
  /\ IxAtRest
  /\ RenderAtRest
  /\ ServeAtRest
  /\ OverlapAtRest
  /\ ConfigAtRest
  /\ SitemapAtRest

NextDiscovery ==
  \/ \E outputDir \in {Undefined, "docs"} : ProjectInputFiles(outputDir)
  \/ \E entry \in WalkEntries : Discover(entry)
  \/ ProjectInputFilesReturns

SpecInputs == InitDiscovery /\ [][NextDiscovery]_vars

\* --------------------------------------------------------------------
\*  Properties of the index cache
\* --------------------------------------------------------------------

\* The invariant of the data model: the cache entry of input i is valid.
CacheFresh(i) ==
  /\ indexFile[i].exists
  /\ Deserializes(indexFile[i].text)
  /\ indexFile[i].mtime >= inputFile[i].mtime
  /\ projectConfigFile # Undefined =>
        indexFile[i].mtime >= cfgFile[projectConfigFile].mtime

\* C1: a lookup of an indexable input returns the persisted entry, without
\* regenerating, exactly when the cache file exists, deserializes and is at
\* least as new as the input file and (when there is one) the project
\* configuration file; in every other case it goes on to regenerate.
C1_ReuseIffFresh ==
  [][\A i \in Indexable : LookupStart(i) =>
        IF CacheFresh(i)
        THEN /\ last' \in {"cached", "cached again"}
             /\ prev'[i] = JSONparse(indexFile[i].text)
             /\ lk' = Idle
             /\ indexFile' = indexFile
        ELSE /\ last' = "started"
             /\ lk'.pc = "formats" /\ lk'.input = i]_ixvars

\* C1 (witness): an entry was reused whose cache file is newer than the input
\* file, which is newer than the project configuration file.
C1_Witness ==
  /\ last \in {"cached", "cached again"}
  /\ projectConfigFile # Undefined
  /\ \E i \in Indexable :
        /\ prev[i] # NoEntry
        /\ indexFile[i].mtime > inputFile[i].mtime
        /\ inputFile[i].mtime > cfgFile[projectConfigFile].mtime

\* C2: a lookup repeated with no change to the input file or the project
\* configuration in between returns the same entry as the one before, calls
\* neither format resolution nor markdown partitioning, and leaves the
\* cache file (content and mtime) as it is.
C2_RepeatedLookupReuses ==
  [][\A i \in Indexable : (LookupStart(i) /\ prev[i] # NoEntry) =>
        /\ last' = "cached again"
        /\ SameEntry(prev'[i], prev[i])
        /\ lk' = Idle
        /\ indexFile' = indexFile]_ixvars

\* C2 (witness): a repeated lookup has just returned the cached entry of an
\* input whose entry has no title (the property JSON.stringify drops).
C2_Witness ==
  /\ last = "cached again"
  /\ \E i \in Indexable :
        /\ prev[i] # NoEntry
        /\ Get(prev[i], "title") = Undefined

\* C3: once the project configuration file's mtime has been raised above the
\* mtime of an input's cache file, the next lookup of that input takes the
\* regeneration path although the input did not change, and the regeneration
\* that completes rewrites the cache file (its mtime is the time of writing).
C3_ConfigInvalidates ==
  [][\A i \in Indexable :
        /\ (LookupStart(i) /\ cfgRaised[i]) =>
              (last' = "started" /\ lk'.pc = "formats" /\ lk'.input = i)
        /\ (PartitionDone /\ lk.input = i) =>
              /\ indexFile'[i].exists
              /\ indexFile'[i].mtime = now
              /\ indexFile'[i].text = JSONstringify(prev'[i])
              /\ ~cfgRaised'[i]]_ixvars

\* C3 (witness): the configuration was saved after every input's cache file
\* was written, no input is newer than its cache file, and a lookup has
\* just started to regenerate.
C3_Witness ==
  /\ last = "started"
  /\ \A i \in Indexable :
        /\ cfgRaised[i]
        /\ indexFile[i].exists
        /\ indexFile[i].mtime >= inputFile[i].mtime

\* The cache file of input i exists and is as new as the input and the
\* project configuration, but does not parse.
CorruptButFresh(i) ==
  /\ indexFile[i].exists
  /\ ~(indexFile[i].text # Corrupt)
  /\ indexFile[i].mtime >= inputFile[i].mtime
  /\ projectConfigFile # Undefined =>
        indexFile[i].mtime >= cfgFile[projectConfigFile].mtime

\* C16: a lookup that finds a cache file that is fresh but does not parse
\* does what it does when there is no cache file: it raises nothing and
\* goes on to regenerate; the regeneration that completes writes the new
\* entry over the cache file and returns it.
C16_CorruptCacheIsAMiss ==
  [][\A i \in Indexable :
       /\ (LookupStart(i) /\ CorruptButFresh(i)) =>
            /\ lk'.pc = "formats" /\ lk'.input = i
            /\ last' = "started"
       /\ (lk.pc = "partition" /\ lk.input = i /\ last' = "regenerated") =>
            /\ indexFile'[i].exists
            /\ indexFile'[i].text # Corrupt
            /\ indexFile'[i].text = JSONstringify(prev'[i])]_vars

\* The lookup of a.qmd found a fresh cache file that does not parse and is
\* regenerating the entry.
C16_Witness ==
  /\ lk.pc = "formats"
  /\ lk.input = "a.qmd"
  /\ last = "started"
  /\ CorruptButFresh("a.qmd")

\* C19: a regeneration that fails ends the lookup with the error, and from
\* the start of the lookup to that end the cache files are not written.
C19_FailedRegenerationWritesNothing ==
  [][/\ RegenerationFails => (last' = "error" /\ lk' = Idle)
     /\ (lk.pc # "idle" /\ last' # "regenerated") => indexFile' = indexFile
     /\ last' = "error" => indexFile' = indexFile]_vars

\* A lookup of a.qmd, whose cache file was older than the input, ended
\* with the error of its regeneration; the old cache file is still there.
C19_Witness ==
  /\ last = "error"
  /\ indexFile["a.qmd"].exists
  /\ indexFile["a.qmd"].text # Corrupt
  /\ indexFile["a.qmd"].mtime < inputFile["a.qmd"].mtime

\* C25: the lookup of an input that does not exist, is a directory or is
\* claimed by no engine ends at once and reports no entry: it raises no
\* error, it does not call the format resolution, and no cache file is
\* created or changed.
C25_NotIndexableIsSkipped ==
  [][\A i \in NotIndexable :
       LookupStart(i) =>
         /\ last' = "undefined"
         /\ lk' = Idle
         /\ indexFile' = indexFile]_vars

\* The lookup of such an input has ended, and no cache file of such an
\* input exists.
C25_Witness ==
  /\ last = "undefined"
  /\ lk = Idle
  /\ \A i \in NotIndexable : ~indexFile[i].exists

\* --------------------------------------------------------------------
\*  Properties of the project render
\* --------------------------------------------------------------------

\* C4: QUARTO_PROJECT_DIR is unset whenever no renderProject call is in
\* flight, whichever way the last call left (return, renderer failure,
\* failure of the relocation or of the library merge, failure of the
\* post-render hook), and while the renderer runs it is the real path of
\* the project directory.
C4_ProjectDirScoped ==
  /\ rp.pc = "idle" => env = Undefined
  /\ rp.pc = "renderFiles" => env = ProjDirReal

\* A call that had published the variable left by an exception of the
\* library merge.
C4_Witness ==
  /\ ret.kind = "threw"
  /\ ret.at = "mergeLibDir"
  /\ rp.pc = "idle"
  /\ env = Undefined

\* The rendered files whose relocation is complete.
Relocated ==
  IF rp.pc \in {"mergeLibDir", "copyResources", "postRender"}
  THEN rp.projResults.files ELSE << >>

\* C5: with an output directory, once the rendered files are relocated the
\* primary artifact of each is at outputDir/<path> with the content this
\* render wrote, and is no longer at its place in the project directory.
C5_ArtifactMoved ==
  HasOutputDir =>
    \A k \in 1..Len(Relocated) :
      LET file == Relocated[k].file
      IN /\ existsSync(fs, Out(file))
         /\ fs[Out(file)] = Content(gen)
         /\ ~existsSync(fs, file)

\* A second render relocated a.html to where the first had put its own.
C5_Witness ==
  /\ HasOutputDir
  /\ rp.pc = "postRender"
  /\ gen = 2
  /\ Out(<<"a.html">>) \in rp.replaced
  /\ \E k \in 1..Len(Relocated) : Relocated[k].file = <<"a.html">>

\* A step that is one relocateDir call on a directory that exists, to a
\* destination that exists.
RelocatesOnto(dir) ==
  /\ rp.pc \in {"supporting", "mergeLibDir"}
  /\ rp'.pc = rp.pc
  /\ rp.pending # << >>
  /\ dir = Head(rp.pending)
  /\ rp'.pending = Tail(rp.pending)
  /\ existsSync(fs, dir)
  /\ existsSync(fs, Out(dir))

\* C6: a directory relocated to a destination that already exists leaves
\* at the destination exactly the content of the relocated directory.
C6_StaleReplaced ==
  [][\A dir \in {FilesDirOf(ProjectInputs[1]), FilesDirOf(ProjectInputs[2]),
                 libDirFull, libDirFull \o <<LibNames[1]>>,
                 libDirFull \o <<LibNames[2]>>} :
        RelocatesOnto(dir) =>
          DirContent(fs', Out(dir)) = DirContent(fs, dir)]_vars

\* The supporting directory of a.qmd holds the figure of the second render
\* only, where the first render had put its own.
C6_Witness ==
  /\ gen = 2
  /\ Out(<<"a_files">>) \in rp.replaced
  /\ existsSync(fs, Out(<<"a_files", Fig(2)>>))
  /\ ~existsSync(fs, Out(<<"a_files", Fig(1)>>))

\* C7: in the result renderProject returns, no resource file of a rendered
\* file is the output file of a rendered file of the result, and none lies
\* under a supporting directory of that rendered file.
C7_ResourcesExcludeOutputs ==
  ret.kind = "returned" =>
    \A k \in 1..Len(ret.files) :
      \A n \in 1..Len(ret.files[k].resourceFiles) :
        LET resource == ret.files[k].resourceFiles[n]
        IN /\ \A j \in 1..Len(ret.files) : resource # ret.files[j].file
           /\ \A d \in 1..Len(ret.files[k].supporting) :
                 ~IsPrefix(ret.files[k].supporting[d], resource)

\* Both inputs were rendered into an output directory, a.qmd keeping its
\* markdown (so that its supporting directory is still in the project
\* directory), and a.qmd has resource files left.
C7_Witness ==
  /\ ret.kind = "returned"
  /\ HasOutputDir
  /\ Len(ret.files) = 2
  /\ ret.files[1].input = "a.qmd"
  /\ ret.files[1].keepMd
  /\ Len(ret.files[1].resourceFiles) > 0

\* C8: a step of the library merge of an incremental render leaves every
\* subdirectory of the output library directory that is not in the source
\* library directory as it was.
C8_UnrelatedLibUntouched ==
  [][(rp.pc = "mergeLibDir" /\ rp.incremental) =>
        \A k \in 1..Len(LibNames) :
          <<LibNames[k]>> \notin DOMAIN rp.srcLib =>
            DirContent(fs', Out(libDirFull \o <<LibNames[k]>>))
              = DirContent(fs, Out(libDirFull \o <<LibNames[k]>>))]_vars

\* An incremental render of a.qmd merged library A of the second render
\* next to library B of the first.
C8_Witness ==
  /\ rp.pc = "copyResources"
  /\ rp.incremental
  /\ gen = 2
  /\ <<"B">> \notin DOMAIN rp.srcLib
  /\ existsSync(fs, Out(<<LibDirName, "A", "lib.js">>))
  /\ fs[Out(<<LibDirName, "A", "lib.js">>)] = Content(2)
  /\ existsSync(fs, Out(<<LibDirName, "B", "lib.js">>))
  /\ fs[Out(<<LibDirName, "B", "lib.js">>)] = Content(1)

\* The library merge of a render without an explicit file list is done.
FullMergeDone ==
  /\ rp.pc = "copyResources"
  /\ ~rp.incremental
  /\ HasOutputDir /\ HasLibDir
  /\ rp.srcLib # NoTree

\* C9 as stated: after a full render the output library directory holds
\* exactly the content of the source library directory.
C9_FullRenderReplacesLibs_Original ==
  FullMergeDone => DirContent(fs, Out(libDirFull)) = rp.srcLib

\* C9: after a full render that does not use the freezer, whose library
\* directory exists when the merge runs, the output library directory
\* holds exactly the content of the source library directory.
C9_FullRenderReplacesLibs ==
  (FullMergeDone /\ ~rp.useFreezer) =>
     DirContent(fs, Out(libDirFull)) = rp.srcLib

\* The second render, full and without the freezer, produced library A
\* only; library B of the first render is gone from the output.
C9_Witness ==
  /\ FullMergeDone /\ ~rp.useFreezer
  /\ gen = 2
  /\ <<"B">> \notin DOMAIN rp.srcLib
  /\ <<"A">> \in DOMAIN rp.srcLib
  /\ ~existsSync(fs, Out(<<LibDirName, "B">>))
  /\ existsSync(fs, Out(<<LibDirName, "A", "lib.js">>))

\* C10: the failure of a file's conversion is never thrown by
\* renderProject: its error is the error of the result, the files that did
\* render are listed in the result and, with an output directory, are in
\* it, and the post-render hook is called before the result is returned.
C10_FailureDoesNotAbort ==
  /\ ret.kind = "threw" => ret.error = NoError
  /\ rp.pc = "postRender" =>
       /\ rp.projResults.error = rp.fileResults.error
       /\ Len(rp.projResults.files) = Len(rp.fileResults.files)
       /\ \A k \in 1..Len(rp.fileResults.files) :
            /\ rp.projResults.files[k].input = rp.fileResults.files[k].input
            /\ rp.projResults.files[k].file = rp.fileResults.files[k].file
            /\ HasOutputDir =>
                 existsSync(fs, Out(rp.fileResults.files[k].file))
  /\ ret.kind = "returned" => ret.postRender

\* a.qmd failed, b.qmd rendered and is in the output directory; the result
\* was returned with the error of a.qmd after the post-render hook.
C10_Witness ==
  /\ ret.kind = "returned"
  /\ ret.error = RenderError("a.qmd")
  /\ ret.postRender
  /\ HasOutputDir
  /\ Len(ret.files) = 1
  /\ ret.files[1].input = "b.qmd"
  /\ existsSync(fs, Out(<<"b.html">>))

\* C27 as stated: with an output directory, once the rendered files are
\* relocated every supporting directory a rendered file lists is under the
\* output directory with what this render wrote in it.
C27_SupportingDirsRelocated ==
  HasOutputDir =>
    \A k \in 1..Len(Relocated) :
      LET supporting == rp.fileResults.files[k].supporting
      IN \A n \in 1..Len(supporting) :
           /\ existsSync(fs, Out(supporting[n]))
           /\ existsSync(fs, Out(supporting[n]) \o <<Fig(gen)>>)
           /\ fs[Out(supporting[n]) \o <<Fig(gen)>>] = Content(gen)

\* The library merge of a render with an output directory is done, and the
\* library directory existed when it began.
LibMergeDone ==
  /\ rp.pc \in {"copyResources", "postRender"}
  /\ HasOutputDir /\ HasLibDir
  /\ rp.srcLib # NoTree

\* C22: a supporting directory of a rendered file arrives under the output
\* directory, and it is still in the project directory afterwards exactly
\* when the format of that file keeps the markdown; after the merge the
\* library directory is still in the project directory exactly when a
\* rendered file of the pass kept the markdown.
C22_KeepCopiesElseMoves ==
  /\ [][(/\ rp.pc = "supporting" /\ rp.pending # << >>
         /\ rp'.pc = "supporting" /\ rp'.pending = Tail(rp.pending)
         /\ existsSync(fs, Head(rp.pending))) =>
          /\ DirContent(fs', Out(Head(rp.pending))) =
               DirContent(fs, Head(rp.pending))
          /\ existsSync(fs', Head(rp.pending)) <=>
               rp.fileResults.files[rp.idx].keepMd]_vars
  /\ [](LibMergeDone =>
          (existsSync(fs, libDirFull) <=>
             \E k \in 1..Len(rp.fileResults.files) :
                rp.fileResults.files[k].keepMd))

\* A pass with a file that kept the markdown and one that did not: the
\* supporting directory of the first is in both trees, that of the second
\* under the output directory only, and the library directory is retained.
C22_Witness ==
  /\ LibMergeDone
  /\ Len(rp.fileResults.files) = 2
  /\ rp.fileResults.files[1].keepMd /\ ~rp.fileResults.files[2].keepMd
  /\ existsSync(fs, <<"a_files">>) /\ existsSync(fs, Out(<<"a_files">>))
  /\ ~existsSync(fs, <<"b_files">>) /\ existsSync(fs, Out(<<"b_files">>))
  /\ existsSync(fs, libDirFull)

\* The freezer at freezeDir holds the library directory as src has it.
FreezerHolds(f, freezeDir, src) ==
  \A r \in DOMAIN src :
    /\ existsSync(f, freezeDir \o libDirFull \o r)
    /\ f[freezeDir \o libDirFull \o r] = src[r]

C23_WitnessNoVisible ==
  /\ rp.pc = "mergeLibDir"
  /\ rp.pending = << >>
  /\ FreezerHolds(fs, HiddenFreezeDir, rp.srcLib)
  /\ ~existsSync(fs, kProjectFreezeDir)

\* C26: a file is handed to the renderer only after the pre-render hook
\* completed; the post-render hook is called from the end of the resource
\* copying (or, without an output directory, of the tracking) and from
\* nowhere else; while it runs, the rendered files are relocated, the
\* library directory is merged and the resource files are copied; and with
\* an output directory, each path it is given is the rendered file's path
\* under the output directory.
C26_HooksAroundTheBatch ==
  /\ []((rp.pc = "renderFiles" \/ rp.fileResults.files # << >>) =>
          rp.preRender)
  /\ [][(rp'.pc = "postRender" /\ rp.pc # "postRender") =>
          rp.pc \in {"copyResources", "track"}]_vars
  /\ []((rp.pc = "postRender" /\ HasOutputDir) =>
          /\ rp.pending = << >>
          /\ Len(rp.projResults.files) = Len(rp.fileResults.files)
          /\ \A k \in 1..Len(rp.fileResults.files) :
               LET file == rp.fileResults.files[k].file
               IN /\ existsSync(fs, Out(file)) /\ ~existsSync(fs, file)
                  /\ rp.hookFiles[k] = Out(file)
                  /\ IsPrefix(<<OutputDirName>>, rp.hookFiles[k])
          /\ (HasLibDir /\ rp.srcLib # NoTree) =>
               \A r \in DOMAIN rp.srcLib :
                 existsSync(fs, Out(libDirFull) \o r)
          /\ \A k \in 1..Len(rp.projResults.files) :
               LET resources == rp.projResults.files[k].resourceFiles
               IN \A n \in 1..Len(resources) :
                    (existsSync(fs, resources[n]) /\ fs[resources[n]] # Dir) =>
                      (/\ existsSync(fs, Out(resources[n]))
                       /\ fs[Out(resources[n])] = fs[resources[n]]))

\* The post-render hook runs after two files were rendered and relocated,
\* the library directory merged and a resource file copied.
C26_Witness ==
  /\ rp.pc = "postRender"
  /\ HasOutputDir /\ HasLibDir
  /\ rp.preRender
  /\ Len(rp.hookFiles) = 2
  /\ existsSync(fs, Out(libDirFull))
  /\ existsSync(fs, Out(<<"logo.png">>))

\* --------------------------------------------------------------------
\*  Properties of the preview server
\* --------------------------------------------------------------------

C12_IncrementalIffProperSubset_Original ==
  (rp.pc # "idle" /\ Names(rp.arg.list) \subseteq Names(contextFilesInput)) =>
    (rp.incremental <=>
       (rp.arg.given /\ Names(rp.arg.list) # Names(contextFilesInput)))

\* C12: the render is incremental exactly when the caller gave a list of
\* files, whether or not the list names every input of the project.
C12_IncrementalIffExplicit ==
  rp.pc # "idle" => (rp.incremental <=> rp.arg.given)

\* The caller listed every input of the project and the render, which is
\* incremental, reached the renderer.
C12_Witness ==
  /\ rp.pc = "renderFiles"
  /\ rp.incremental
  /\ rp.arg.given
  /\ Names(rp.arg.list) = Names(contextFilesInput)

\* options.useFreezer as the caller passed it (line 247 sets it when the
\* hook answers true).
CallerUseFreezer == rp.useFreezer /\ rp.hook # "true"

\* C13 as stated: of the lists handed to the renderer, for an incremental
\* render without the freezer, every requested file of the list of files
\* is in the always-execute list and the always-execute list names only
\* requested files; with the freezer there is no always-execute list.
C13_ExplicitFilesAlwaysExecute ==
  rp.pc = "renderFiles" =>
    /\ (rp.incremental /\ ~CallerUseFreezer) =>
         /\ rp.alwaysExecuteFiles.given
         /\ \A k \in 1..Len(rp.files) :
              rp.files[k].name \in Names(rp.arg.list) =>
                Includes(rp.alwaysExecuteFiles.list, rp.files[k])
         /\ Names(rp.alwaysExecuteFiles.list) \subseteq Names(rp.arg.list)
    /\ CallerUseFreezer => ~rp.alwaysExecuteFiles.given

\* C14: when the incrementalRenderAll hook answered true, the files handed
\* to the renderer are the inputs of the project, the freezer is used and
\* the always-execute list names the requested files and no other.
C14_RenderAllWithFreezer ==
  (rp.pc \in {"preRender", "renderFiles"} /\ rp.hook = "true") =>
    /\ rp.incremental
    /\ rp.files = contextFilesInput
    /\ rp.useFreezer
    /\ rp.alwaysExecuteFiles.given
    /\ Names(rp.alwaysExecuteFiles.list) = Names(rp.arg.list)

\* a.qmd was requested, the hook answered true, and the renderer has both
\* inputs to render.
C14_Witness ==
  /\ rp.pc = "renderFiles"
  /\ rp.hook = "true"
  /\ Names(rp.arg.list) = {"a.qmd"}
  /\ Len(rp.files) = 2
  /\ Names(rp.alwaysExecuteFiles.list) = {"a.qmd"}

\* A requested render target is not on disk.
HasMissingTarget(files) ==
  files.given /\ \E k \in 1..Len(files.list) :
                    ~existsSync(InitialTree, <<files.list[k].name>>)

\* C15 as stated: a call that names a render target that is not on disk
\* throws, and it gets no further than the call of the pre-render hook: the
\* hook has not run, QUARTO_PROJECT_DIR is not set, nothing is rendered.
C15_MissingTargetFailsFirst ==
  /\ HasMissingTarget(rp.arg) =>
       /\ rp.pc \in {"incrementalRenderAll", "preRender"}
       /\ ~rp.preRender
       /\ env = Undefined
  /\ HasMissingTarget(ret.arg) => (ret.kind = "threw" /\ ret.at = "files")

\* C17 as stated: when a rendered file declares a resource file that is not
\* on disk, the relocation warns about it and completes.
C17_MissingResourceWarned_Original ==
  (rp.pc = "postRender" /\ HasOutputDir) =>
    \A k \in 1..Len(rp.fileResults.files) :
      \A n \in 1..Len(rp.fileResults.files[k].resourceFiles.files) :
        LET file == rp.fileResults.files[k].resourceFiles.files[n]
        IN (~rp.fileResults.files[k].selfContained
              /\ ~existsSync(fs, file) /\ ~existsSync(fs, Out(file)))
             => file \in rp.warnings

\* C17: a resource file a rendered file declares that is not on disk when
\* the resources are resolved is left out of the resource files without a
\* warning, and the relocation completes; the warning is given for the
\* resource files of the project that are neither in the project
\* directory nor in the output directory.
C17_MissingResourceDropped ==
  (rp.pc = "postRender" /\ HasOutputDir) =>
    /\ <<"missing.png">> \notin rp.warnings
    /\ \A k \in 1..Len(rp.projResults.files) :
         ~Includes(rp.projResults.files[k].resourceFiles, <<"missing.png">>)
    /\ <<"gone.png">> \in rp.warnings
    /\ rp.projResults.error = rp.fileResults.error

\* a.qmd, which declares missing.png, was rendered without error and
\* relocated; the warning is about gone.png only.
C17_Witness ==
  /\ rp.pc = "postRender"
  /\ HasOutputDir
  /\ \E k \in 1..Len(rp.fileResults.files) :
       /\ rp.fileResults.files[k].input = "a.qmd"
       /\ Includes(rp.fileResults.files[k].resourceFiles.files, <<"missing.png">>)
  /\ rp.projResults.error = NoError
  /\ rp.warnings = {<<"gone.png">>}

\* C18 as stated: with more than one file to render, the options handed
\* to the renderer have executeDaemon 0.
C18_DaemonDisabledForMany ==
  (rp.pc = "renderFiles" /\ Len(rp.files) > 1) => rp.flags.executeDaemon = "0"

\* --------------------------------------------------------------------
\*  Properties of input discovery
\* --------------------------------------------------------------------

\* The k-th path of the walk is a candidate: it was not ignored, it is
\* outside the output directory and an engine claims it.
Candidate(k) ==
  LET entry == pif.walk[k]
  IN /\ ~(entry.via = "dir" /\ projectIgnored(entry.path))
     /\ ~InOutputDir(entry.path, pif.outputDir)
     /\ fileExecutionEngine(entry.path) # Undefined

Candidates == {k \in 1..Len(pif.walk) : Candidate(k)}

\* The paths the claiming engines declared as always excluded.
AlwaysExcluded ==
  UNION {Range(executionEngineKeepFiles(
                 fileExecutionEngine(pif.walk[k].path), pif.walk[k].path)) :
           k \in Candidates}

FirstDiscovery(file) ==
  CHOOSE k \in Candidates :
    /\ pif.walk[k].path = file
    /\ \A j \in Candidates : pif.walk[j].path = file => k <= j

\* C20: the input set that input discovery returns has no duplicates,
\* holds no path that a claiming engine declared as always excluded, and
\* lists the remaining candidates in the order of their first discovery.
C20_InputSetUniqueOrdered ==
  pif.pc = "returned" =>
    LET out == pif.inputFiles
    IN /\ \A i, j \in 1..Len(out) : i # j => out[i] # out[j]
       /\ Range(out) \cap AlwaysExcluded = {}
       /\ Range(out) = {pif.walk[k].path : k \in Candidates} \ AlwaysExcluded
       /\ \A i, j \in 1..Len(out) :
            i < j => FirstDiscovery(out[i]) < FirstDiscovery(out[j])

\* A walk that found a path twice and a path an engine excludes, and
\* that returned two inputs.
C20_Witness ==
  /\ pif.pc = "returned"
  /\ \E i, j \in Candidates : i < j /\ pif.walk[i].path = pif.walk[j].path
  /\ \E k \in Candidates : pif.walk[k].path \in AlwaysExcluded
  /\ Len(pif.inputFiles) >= 2

\* C21 as stated: every file of the returned input set is claimed by an
\* engine, and the returned engines are exactly the engines that claim a
\* file of the returned input set.
C21_EnginesOfInputs ==
  pif.pc = "returned" =>
    /\ \A file \in Range(pif.inputFiles) :
         fileExecutionEngine(file) # Undefined
    /\ Range(pif.engines) =
         {fileExecutionEngine(file) : file \in Range(pif.inputFiles)}

\* A path lies inside the output directory: its first name is the
\* directory's.
LiesInside(file, outputDir) ==
  Len(PathNames(file)) > 1 /\ PathNames(file)[1] = outputDir

\* C29 as stated: with an output directory configured, a path that was not
\* ignored and that an engine claims is left out of the candidates if and
\* only if it lies inside the output directory.
C29_OutputDirDropsOnlyItsFiles ==
  (pif.pc = "returned" /\ pif.outputDir # Undefined) =>
    \A k \in 1..Len(pif.walk) :
      LET entry == pif.walk[k]
      IN (/\ ~(entry.via = "dir" /\ projectIgnored(entry.path))
          /\ fileExecutionEngine(entry.path) # Undefined) =>
           (entry.path \notin Range(pif.files) <=>
              LiesInside(entry.path, pif.outputDir))

\* --------------------------------------------------------------------
\*  Properties of overlapping renderProject calls
\* --------------------------------------------------------------------

\* C28 as stated: as long as the renderer or the post-render hook of a
\* renderProject call is running, QUARTO_PROJECT_DIR is the project
\* directory, whatever other calls did in the meantime.
C28_ProjectDirHeldWhileAnyRuns ==
  (\E c \in Invocations : calls[c] \in {"renderFiles", "postRender"}) =>
    env = ProjDirReal

\* --------------------------------------------------------------------
\*  Properties of the configuration's resources
\* --------------------------------------------------------------------

\* The string values of a configuration value, each with the keys on the
\* way to it (the position in an array counts as NumberIndex).
RECURSIVE StringsIn(_)
StringsIn(node) ==
  IF node.t = "string" THEN {[keys |-> << >>, string |-> node.v]}
  ELSE IF node.t = "number" THEN {}
  ELSE UNION {
         {[keys |-> <<IF node.t = "array" THEN NumberIndex
                      ELSE node.v[k].key>> \o o.keys,
           string |-> o.string] :
            o \in StringsIn(IF node.t = "array" THEN node.v[k]
                            ELSE node.v[k].value)} :
         k \in 1..Len(node.v)}

\* The string is reached through a key of the ignore set.
UnderIgnoredKey(o) ==
  \E k \in 1..Len(o.keys) : o.keys[k] \in resourceIgnoreFields(cr.type)

\* The string is, or is inside, the method of an html-math-method mapping.
UnderMathMethod(o) ==
  \E k \in 1..(Len(o.keys) - 1) :
    o.keys[k] = kHtmlMathMethod /\ o.keys[k + 1] = "method"

Returned == {cr.resources[k] : k \in 1..Len(cr.resources)}

\* C24 as stated: the traversal returns exactly the real paths of the
\* string values that name an existing file that is no directory and that
\* are not reached through a key of the ignore set.
C24_ConfigResources_Original ==
  cr.pc = "returned" =>
    Returned = {realPathSync(o.string) :
                  o \in {x \in StringsIn(cr.metadata) :
                           /\ ConfigPathKind(x.string) = "file"
                           /\ ~UnderIgnoredKey(x)}}

\* C24: the traversal returns exactly the real paths of the string values
\* that name an existing file that is no directory, that are not reached
\* through a key of the ignore set, and that are not, or not inside, the
\* method of an html-math-method mapping.
C24_ConfigResources ==
  cr.pc = "returned" =>
    Returned = {realPathSync(o.string) :
                  o \in {x \in StringsIn(cr.metadata) :
                           /\ ConfigPathKind(x.string) = "file"
                           /\ ~UnderIgnoredKey(x)
                           /\ ~UnderMathMethod(x)}}

\* A file named below an ignored key, two levels down, was not returned.
C24_Witness ==
  /\ cr.pc = "returned"
  /\ cr.resources = << >>
  /\ cr.type = "site"
  /\ \E o \in StringsIn(cr.metadata) :
       /\ o.keys = <<"format", "site-navbar", NumberIndex>>
       /\ o.string = DottedPath("logo.png")

\* --------------------------------------------------------------------
\*  Properties of the sitemap
\* --------------------------------------------------------------------

\* The state after updateSitemap has written a sitemap: site.before is the
\* sitemap.xml it found, site.call the output files it was called with.
SitemapWritten ==
  site.pc = "idle" /\ site.updates > 0 /\ site.baseUrl

CurrentLocs ==
  {fileLoc(site.call.files[k]) : k \in 1..Len(site.call.files)}

Lists(urls, loc, lastmod) ==
  \E j \in 1..Len(urls) : urls[j].loc = loc /\ urls[j].lastmod = lastmod

====
